---- MODULE Spec2Model ----
(***************************************************************************)
(* Model of the agent backend's workflow engine                           *)
(* (app/workflow/langgraph_workflow.py) and of its dual-tier session      *)
(* state persistence (app/services/redis_service.py and the layers        *)
(* around it).                                                             *)
(*                                                                         *)
(* Free text is modelled by what the code looks for in it: a reasoning    *)
(* text is the set of routing tokens it contains, a user message is the   *)
(* set of lexical cue words it contains.                                  *)
(***************************************************************************)
EXTENDS Integers, Sequences, FiniteSets, TLC

VARIABLES wf_pc, state, result, hist,
          fast, sessions, conversation_messages, turn, last_save, appended,
          last_load, last_op, adder,
          s_pc, sstate, events, s_hist, oracle,
          context_embeddings, has_pgvector, query_result,
          redis_service, last_call,
          params, extracted,
          saved_state, state_json, hit_state

wfVars == <<wf_pc, state, result, hist>>
storeVars == <<fast, sessions, conversation_messages, turn, last_save, appended,
               last_load, last_op>>
appendVars == <<adder>>
streamVars == <<s_pc, sstate, events, s_hist, oracle>>
contextVars == <<context_embeddings, has_pgvector, query_result>>
managerVars == <<redis_service, last_call>>
paramVars == <<params, extracted, saved_state, state_json, hit_state>>
\* what the steps of the workflow turn, and the session operations, leave alone
notWfVars == <<storeVars, appendVars, streamVars, contextVars, managerVars, paramVars>>
notStoreVars == <<wfVars, appendVars, streamVars, contextVars, managerVars, paramVars>>

(***************************************************************************)
(* Bounds of the model                                                     *)
(***************************************************************************)
\* longest tool_requirements list an intent analysis returns
MaxProposed == 2
\* guard on iteration_count, above every value the cap lets it reach
IterBound == 5
\* longest message list of a session
MaxMessages == 4
\* most context records of a session
MaxContexts == 3
\* largest limit of a context query
MaxLimit == 2

(***************************************************************************)
(* Program constants                                                       *)
(***************************************************************************)
\* WorkflowState.max_iterations default
DefaultMaxIterations == 3
\* config.TOOL_DEFAULT_LIMIT and config.TOOL_MAX_LIMIT
ToolDefaultLimit == 250
ToolMaxLimit == 500
\* confidence 0.5 of the intent-analysis fallback, in tenths
FallbackConfidence == 5

None == "<None>"

(***************************************************************************)
(* Generic helpers                                                         *)
(***************************************************************************)
Range(s) == {s[i] : i \in 1..Len(s)}

Count(x, s) == Cardinality({i \in 1..Len(s) : s[i] = x})

\* sorted(a) == sorted(b) for two lists of names
SortedEqual(a, b) == Len(a) = Len(b) /\ \A x \in Range(a) \cup Range(b) : Count(x, a) = Count(x, b)

SeqsUpTo(S, n) == UNION {[1..k -> S] : k \in 0..n}

RECURSIVE SetToSeq(_)
SetToSeq(S) == IF S = {} THEN <<>> ELSE LET x == CHOOSE y \in S : TRUE IN <<x>> \o SetToSeq(S \ {x})

(***************************************************************************)
(* Tool registry (ToolFactory.tools) and what the descriptions contain     *)
(***************************************************************************)
Tools == <<"get_current_datetime", "get_weather", "check_system_health", "calculate", "retrieve_session_context">>

ToolDescription(name) ==
    CASE name = "get_current_datetime" -> {"time"}
      [] name = "get_weather" -> {"weather"}
      [] name = "check_system_health" -> {}
      [] name = "calculate" -> {}
      [] name = "retrieve_session_context" -> {"context", "file", "document"}
      [] OTHER -> {}

\* names an intent analysis may propose: registered ones and an unknown one
ProposedNames == {"get_weather", "retrieve_session_context", "no_such_tool"}

(***************************************************************************)
(* Texts                                                                   *)
(***************************************************************************)
RoutingTokens == {"generate_response", "continue_tools"}
Texts == SUBSET RoutingTokens
EmptyText == {}

\* cue words of _should_continue_tool_execution and _suggest_additional_tools
HistoryCueWords == {"name", "tell", "said", "mention", "discuss", "talk"}
DiscussCueWords == {"discuss", "tell", "said", "mention", "talk"}
UserMessages == {{"weather"}, {"name"}, {"tell", "weather"}}

ResponseTexts == {"answer"}
ApologyText == "I apologize, but I encountered an error while generating a response"
WorkflowFailedText == "Workflow processing failed"

(***************************************************************************)
(* WorkflowState as _setup_workflow_state builds it                        *)
(***************************************************************************)
SetupWorkflowState(user_message) ==
    [ user_message |-> user_message,
      intent |-> None,
      confidence |-> 0,
      tool_requirements |-> <<>>,
      reasoning |-> EmptyText,
      selected_tools |-> <<>>,
      tool_results |-> <<>>,
      response |-> None,
      workflow_status |-> "initialized",
      iteration_count |-> 0,
      max_iterations |-> DefaultMaxIterations,
      previous_tool_selections |-> <<>> ]

(***************************************************************************)
(* intent_analysis                                                         *)
(***************************************************************************)
LlmFailure == [ok |-> FALSE, intent |-> None, confidence |-> 0, tool_requirements |-> <<>>, reasoning |-> EmptyText]

IntentOutcomes ==
    {LlmFailure} \cup
    [ok : {TRUE}, intent : {"weather_query"}, confidence : {9},
     tool_requirements : SeqsUpTo(ProposedNames, MaxProposed), reasoning : Texts]

\* intent analysis whose except branch sets no default
AnalyzeIntentNoFallback(st, out) ==
    IF out.ok
    THEN [st EXCEPT !.workflow_status = "intent_analysis",
                    !.intent = out.intent,
                    !.confidence = out.confidence,
                    !.tool_requirements = out.tool_requirements,
                    !.reasoning = out.reasoning]
    ELSE [st EXCEPT !.workflow_status = "intent_analysis"]

AnalyzeIntent(st, out) ==
    IF out.ok
    THEN [st EXCEPT !.workflow_status = "intent_analysis",
                    !.intent = out.intent,
                    !.confidence = out.confidence,
                    !.tool_requirements = out.tool_requirements,
                    !.reasoning = out.reasoning]
    ELSE [st EXCEPT !.workflow_status = "intent_analysis",
                    !.intent = "general_query",
                    !.confidence = FallbackConfidence,
                    !.tool_requirements = <<>>,
                    !.reasoning = EmptyText]

(***************************************************************************)
(* tool_selection                                                          *)
(***************************************************************************)
IsContextTool(name) == ToolDescription(name) \cap {"context", "file", "document"} # {}

SuggestAdditionalTools(st, current_tools, available_tools) ==
    LET triggered == \E i \in 1..Len(current_tools) :
                        /\ IsContextTool(current_tools[i])
                        /\ st.user_message \cap DiscussCueWords # {}
        context_tools == {t \in Range(available_tools) : IsContextTool(t)}
        additional == IF triggered THEN context_tools ELSE {}
    IN SetToSeq(additional \ Range(current_tools))

RECURSIVE AppendNew(_, _)
AppendNew(selected, names) ==
    IF names = <<>> THEN selected
    ELSE AppendNew(IF Head(names) \in Range(selected) THEN selected ELSE Append(selected, Head(names)),
                   Tail(names))

RECURSIVE KeepAvailable(_, _)
KeepAvailable(names, available) ==
    IF names = <<>> THEN <<>>
    ELSE IF Head(names) \in Range(available)
         THEN <<Head(names)>> \o KeepAvailable(Tail(names), available)
         ELSE KeepAvailable(Tail(names), available)

\* tool selection that does not look the proposed names up in the registry
SelectToolsUnfiltered(st) ==
    LET primary == AppendNew(<<>>, st.tool_requirements)
        selected == IF primary # <<>>
                    THEN AppendNew(primary, SuggestAdditionalTools(st, primary, Tools))
                    ELSE primary
        record == selected # <<>> /\ Len(st.previous_tool_selections) < st.iteration_count
    IN [st EXCEPT !.workflow_status = "tool_selection",
                  !.previous_tool_selections = IF record THEN Append(@, selected) ELSE @,
                  !.selected_tools = selected]

SelectTools(st) ==
    LET primary == AppendNew(<<>>, KeepAvailable(st.tool_requirements, Tools))
        selected == IF primary # <<>>
                    THEN AppendNew(primary, SuggestAdditionalTools(st, primary, Tools))
                    ELSE primary
        record == selected # <<>> /\ Len(st.previous_tool_selections) < st.iteration_count
    IN [st EXCEPT !.workflow_status = "tool_selection",
                  !.previous_tool_selections = IF record THEN Append(@, selected) ELSE @,
                  !.selected_tools = selected]

(***************************************************************************)
(* tool_execution                                                          *)
(***************************************************************************)
\* what happens to one tool: parameter extraction (an LLM call that degrades
\* to empty parameters) and the invocation itself
ToolOutcomes == [extract : {"ok", "failed"}, invoke : {"ok", "raise"}]

ToolRecord(tool_name, outcome) ==
    IF tool_name \notin Range(Tools)
    THEN [tool |-> tool_name, result |-> None, status |-> "error", error |-> "not found", parameters |-> None]
    ELSE IF outcome.invoke = "raise"
    THEN [tool |-> tool_name, result |-> None, status |-> "error", error |-> "raised", parameters |-> None]
    ELSE [tool |-> tool_name, result |-> "output", status |-> "success", error |-> None,
          parameters |-> IF outcome.extract = "ok" THEN "extracted" ELSE "empty"]

RECURSIVE RunToolsAbortOnError(_, _, _)
\* a loop that lets the first tool failure end the pass
RunToolsAbortOnError(selected, outcomes, i) ==
    IF i > Len(selected) THEN <<>>
    ELSE IF outcomes[i].invoke = "raise" THEN <<ToolRecord(selected[i], outcomes[i])>>
    ELSE <<ToolRecord(selected[i], outcomes[i])>> \o RunToolsAbortOnError(selected, outcomes, i + 1)

RECURSIVE RunTools(_, _, _)
\* the for loop of _execute_tools from position i on
RunTools(selected, outcomes, i) ==
    IF i > Len(selected) THEN <<>>
    ELSE <<ToolRecord(selected[i], outcomes[i])>> \o RunTools(selected, outcomes, i + 1)

ExecuteTools(st, outcomes) ==
    LET counted == [st EXCEPT !.workflow_status = "tool_execution",
                              !.iteration_count = @ + 1]
    IN IF st.selected_tools = <<>>
       THEN counted
       ELSE [counted EXCEPT !.tool_results = RunTools(st.selected_tools, outcomes, 1)]

(***************************************************************************)
(* reasoning and the conditional edge                                      *)
(***************************************************************************)
ReasoningOutcomes == {[ok |-> FALSE, text |-> EmptyText]} \cup [ok : {TRUE}, text : Texts]

ReasonAboutCompleteness(st, out) ==
    IF out.ok
    THEN [st EXCEPT !.workflow_status =
              IF "generate_response" \in out.text THEN "response_generation" ELSE "tool_execution"]
    ELSE [st EXCEPT !.workflow_status = "tool_execution", !.reasoning = EmptyText]

RepeatedSelection(st) ==
    /\ st.selected_tools # <<>>
    /\ st.previous_tool_selections # <<>>
    /\ \E i \in 1..Len(st.previous_tool_selections) :
          SortedEqual(st.previous_tool_selections[i], st.selected_tools)

\* a history short-circuit that does not look at the selected tools
HistoryShortCircuitAnyTools(st) ==
    st.user_message \cap HistoryCueWords # {}

HistoryShortCircuit(st) ==
    st.user_message \cap HistoryCueWords # {} /\ st.selected_tools = <<>>

\* routing without the iteration cap
ShouldContinueNoCap(st) ==
    IF RepeatedSelection(st) THEN "generate_response"
    ELSE IF HistoryShortCircuit(st) THEN "generate_response"
    ELSE IF "generate_response" \in st.reasoning THEN "generate_response"
    ELSE "continue_tools"

ShouldContinueToolExecution(st) ==
    IF st.iteration_count >= st.max_iterations THEN "generate_response"
    ELSE IF RepeatedSelection(st) THEN "generate_response"
    ELSE IF HistoryShortCircuit(st) THEN "generate_response"
    ELSE IF "generate_response" \in st.reasoning THEN "generate_response"
    ELSE IF "continue_tools" \in st.reasoning THEN "continue_tools"
    ELSE "continue_tools"

\* the safeguard of section 4.4 that applies to a state, in priority order
SafeguardOf(st) ==
    IF st.iteration_count >= st.max_iterations THEN "hard_cap"
    ELSE IF RepeatedSelection(st) THEN "cycle_detection"
    ELSE IF HistoryShortCircuit(st) THEN "history_cue"
    ELSE "none"

\* the edges of _create_workflow out of the reasoning node
RouteTarget(route) == IF route = "continue_tools" THEN "tool_execution" ELSE "response_generation"

(***************************************************************************)
(* response_generation and the result of process_message                   *)
(***************************************************************************)
ResponseOutcomes == {[ok |-> FALSE, text |-> None]} \cup [ok : {TRUE}, text : ResponseTexts]

\* response generation without the fallback text of the except branch
GenerateResponseNoFallback(st, out) ==
    [st EXCEPT !.workflow_status = "response_generation",
               !.response = IF out.ok THEN out.text ELSE st.response]

GenerateResponse(st, out) ==
    [st EXCEPT !.workflow_status = "response_generation",
               !.response = IF out.ok THEN out.text ELSE ApologyText]

WorkflowResult(st) ==
    [ status |-> "success",
      response |-> st.response,
      intent |-> st.intent,
      confidence |-> st.confidence,
      requires_tools |-> Len(st.selected_tools) > 0,
      tool_calls |-> st.tool_results,
      workflow_status |-> st.workflow_status ]

WorkflowError ==
    [ status |-> "error",
      response |-> WorkflowFailedText,
      intent |-> None,
      confidence |-> 0,
      requires_tools |-> FALSE,
      tool_calls |-> <<>>,
      workflow_status |-> None ]

NoResult ==
    [ status |-> None, response |-> None, intent |-> None, confidence |-> 0,
      requires_tools |-> FALSE, tool_calls |-> <<>>, workflow_status |-> None ]

(***************************************************************************)
(* The turn of LangGraphWorkflowService.process_message as a state machine *)
(* hist records what happened, for the properties below.                   *)
(***************************************************************************)
NoOutcome == [extract |-> None, invoke |-> None]

InitHist ==
    [ passes |-> 0,             \* tool-execution passes started
      executed |-> <<>>,        \* the tool list each pass ran
      outcomes |-> <<>>,        \* what each tool of the last pass did
      routes |-> <<>>,          \* route taken after each reasoning step
      reason_out |-> [ok |-> FALSE, text |-> EmptyText], \* last reasoning output
      guarded |-> <<>>,         \* per reasoning step: the safeguard that decided, if any
      always_continue |-> TRUE, \* every reasoning output so far said continue_tools only
      failed |-> {} ]           \* phases whose LLM call failed

WfStart ==
    /\ wf_pc = "setup"
    /\ state \in {SetupWorkflowState(m) : m \in UserMessages}
    /\ result = NoResult
    /\ hist = InitHist

\* _setup_workflow_state: raises on a history entry that is no valid Message
WfSetup ==
    /\ wf_pc = "setup"
    /\ \E history_ok \in BOOLEAN :
          IF history_ok
          THEN /\ wf_pc' = "intent_analysis"
               /\ UNCHANGED result
          ELSE /\ wf_pc' = "done"
               /\ result' = WorkflowError
    /\ UNCHANGED <<state, hist>>
    /\ UNCHANGED notWfVars

WfAnalyzeIntent ==
    /\ wf_pc = "intent_analysis"
    /\ \E out \in IntentOutcomes :
          /\ state' = AnalyzeIntent(state, out)
          /\ hist' = [hist EXCEPT !.failed = IF out.ok THEN @ ELSE @ \cup {"intent_analysis"}]
    /\ wf_pc' = "tool_selection"
    /\ UNCHANGED result
    /\ UNCHANGED notWfVars

WfSelectTools ==
    /\ wf_pc = "tool_selection"
    /\ state' = SelectTools(state)
    /\ wf_pc' = "tool_execution"
    /\ UNCHANGED <<result, hist>>
    /\ UNCHANGED notWfVars

WfExecuteTools ==
    /\ wf_pc = "tool_execution"
    /\ state.iteration_count < IterBound
    /\ \E outcomes \in [1..Len(state.selected_tools) -> ToolOutcomes] :
          /\ state' = ExecuteTools(state, outcomes)
          /\ hist' = [hist EXCEPT !.passes = @ + 1,
                                  !.executed = Append(@, state.selected_tools),
                                  !.outcomes = outcomes,
                                  !.failed = IF \E i \in 1..Len(outcomes) : outcomes[i].extract = "failed"
                                             THEN @ \cup {"parameter_extraction"} ELSE @]
    /\ wf_pc' = "reasoning"
    /\ UNCHANGED result
    /\ UNCHANGED notWfVars

\* the reasoning node followed by the conditional edge out of it
WfReason ==
    /\ wf_pc = "reasoning"
    /\ \E out \in ReasoningOutcomes :
          LET after == ReasonAboutCompleteness(state, out)
              route == ShouldContinueToolExecution(after)
          IN /\ state' = after
             /\ wf_pc' = RouteTarget(route)
             /\ hist' = [hist EXCEPT
                   !.routes = Append(@, route),
                   !.reason_out = out,
                   !.guarded = Append(@, SafeguardOf(after)),
                   !.always_continue = @ /\ out.ok /\ out.text = {"continue_tools"},
                   !.failed = IF out.ok THEN @ ELSE @ \cup {"reasoning"}]
    /\ UNCHANGED result
    /\ UNCHANGED notWfVars

WfGenerateResponse ==
    /\ wf_pc = "response_generation"
    /\ \E out \in ResponseOutcomes :
          /\ state' = GenerateResponse(state, out)
          /\ hist' = [hist EXCEPT !.failed = IF out.ok THEN @ ELSE @ \cup {"response_generation"}]
    /\ wf_pc' = "return"
    /\ UNCHANGED result
    /\ UNCHANGED notWfVars

\* process_message after workflow.ainvoke returned
WfReturn ==
    /\ wf_pc = "return"
    /\ result' = WorkflowResult(state)
    /\ wf_pc' = "done"
    /\ UNCHANGED <<state, hist>>
    /\ UNCHANGED notWfVars

\* the conditional edge alone, on any WorkflowState a reasoning node may
\* hand it
RouteSelections == {<<>>, <<"get_weather">>, <<"get_weather", "retrieve_session_context">>}
RoutePrevious == {<<>>, <<<<"get_weather">>>>, <<<<"retrieve_session_context", "get_weather">>>>}
RouteInputs ==
    {[SetupWorkflowState(m) EXCEPT !.workflow_status = "tool_execution",
                                   !.iteration_count = i,
                                   !.selected_tools = sel,
                                   !.previous_tool_selections = prev,
                                   !.reasoning = txt] :
        m \in UserMessages, i \in 0..DefaultMaxIterations,
        sel \in RouteSelections, prev \in RoutePrevious, txt \in Texts}

WfRoute ==
    /\ wf_pc = "route"
    /\ LET route == ShouldContinueToolExecution(state)
       IN /\ wf_pc' = RouteTarget(route)
          /\ hist' = [hist EXCEPT !.routes = Append(@, route),
                                  !.guarded = Append(@, SafeguardOf(state))]
    /\ UNCHANGED <<state, result>>
    /\ UNCHANGED notWfVars

WfNext ==
    \/ WfSetup
    \/ WfAnalyzeIntent
    \/ WfSelectTools
    \/ WfExecuteTools
    \/ WfReason
    \/ WfGenerateResponse
    \/ WfReturn

(***************************************************************************)
(* _execute_tools with tools that may be slow or never return             *)
(***************************************************************************)
\* hasattr(tool, 'ainvoke'): every tool of ToolFactory is a @tool object and
\* has it; an object added with add_tool may only have invoke
InvokeStyles == {"ainvoke", "invoke"}
\* the invocation returns in time, raises, returns after the 30 s of
\* future.result(timeout=30.0), or never returns
TimedOutcomes == [extract : {"ok"}, invoke : {"ok", "raise", "late", "never"}]

\* `await tool.ainvoke(params)` has no timeout and waits for the tool;
\* future.result(timeout=30.0) raises after 30 s, and leaving the `with
\* ThreadPoolExecutor()` block then joins the worker thread
InvokeReturns(style, outcome) == outcome.invoke # "never"

TimedToolRecord(tool_name, style, outcome) ==
    IF outcome.invoke = "late"
    THEN IF style = "ainvoke"
         THEN ToolRecord(tool_name, [outcome EXCEPT !.invoke = "ok"])
         ELSE ToolRecord(tool_name, [outcome EXCEPT !.invoke = "raise"])
    ELSE ToolRecord(tool_name, outcome)

RECURSIVE RunToolsTimed(_, _, _, _)
RunToolsTimed(selected, style, outcomes, i) ==
    IF i > Len(selected) THEN <<>>
    ELSE <<TimedToolRecord(selected[i], style, outcomes[i])>>
         \o RunToolsTimed(selected, style, outcomes, i + 1)

\* the pass comes back only if every invocation it awaits comes back
PassReturns(selected, style, outcomes) ==
    \A i \in 1..Len(selected) :
        selected[i] \in Range(Tools) => InvokeReturns(style, outcomes[i])

WfExecuteToolsTimed(style) ==
    /\ wf_pc = "tool_execution"
    /\ state.iteration_count < IterBound
    /\ \E outcomes \in [1..Len(state.selected_tools) -> TimedOutcomes] :
          /\ hist' = [hist EXCEPT !.passes = @ + 1,
                                  !.executed = Append(@, state.selected_tools),
                                  !.outcomes = outcomes]
          /\ IF PassReturns(state.selected_tools, style, outcomes)
             THEN /\ state' = [state EXCEPT
                                  !.workflow_status = "tool_execution",
                                  !.iteration_count = @ + 1,
                                  !.tool_results =
                                      IF state.selected_tools = <<>> THEN @
                                      ELSE RunToolsTimed(state.selected_tools, style, outcomes, 1)]
                  /\ wf_pc' = "reasoning"
             ELSE /\ state' = [state EXCEPT !.workflow_status = "tool_execution",
                                            !.iteration_count = @ + 1]
                  /\ wf_pc' = "awaiting_tool"
    /\ UNCHANGED result
    /\ UNCHANGED notWfVars

TimedNext ==
    \/ WfSetup
    \/ WfAnalyzeIntent
    \/ WfSelectTools
    \/ \E style \in InvokeStyles : WfExecuteToolsTimed(style)
    \/ WfReason
    \/ WfGenerateResponse
    \/ WfReturn

(***************************************************************************)
(* LangGraphWorkflowService.process_message_stream: the same node          *)
(* functions called in line, with an event appended for each yield.        *)
(***************************************************************************)
Event(type, name) == [type |-> type, name |-> name]
StepComplete(step) == Event("step_complete", step)
Status == Event("status", None)

\* len(response.split()) for the response texts of the model
WordCount(text) ==
    CASE text = ApologyText -> 11
      [] text = "answer" -> 1
      [] OTHER -> 0

ResponseEvents(text) ==
    IF text \in {None, ""} THEN <<>>
    ELSE <<Event("response_start", None)>>
         \o [i \in 1..WordCount(text) |-> Event("response_chunk", None)]
         \o <<Event("response_complete", None)>>

\* the record and the events of one tool of the in-line loop
StreamToolRecord(tool_name, outcome) ==
    IF outcome.invoke = "raise"
    THEN [tool |-> tool_name, result |-> None, status |-> "error", error |-> "raised",
          parameters |-> IF outcome.extract = "ok" THEN "extracted" ELSE "empty"]
    ELSE [tool |-> tool_name, result |-> "output", status |-> "success", error |-> None,
          parameters |-> IF outcome.extract = "ok" THEN "extracted" ELSE "empty"]

RECURSIVE StreamRunTools(_, _, _)
StreamRunTools(selected, outcomes, i) ==
    IF i > Len(selected) THEN <<>>
    ELSE IF selected[i] \notin Range(Tools) THEN StreamRunTools(selected, outcomes, i + 1)
    ELSE <<StreamToolRecord(selected[i], outcomes[i])>> \o StreamRunTools(selected, outcomes, i + 1)

RECURSIVE ToolEvents(_, _, _)
ToolEvents(selected, outcomes, i) ==
    IF i > Len(selected) THEN <<>>
    ELSE IF selected[i] \notin Range(Tools) THEN ToolEvents(selected, outcomes, i + 1)
    ELSE <<Event("tool_call_start", selected[i]),
           Event(IF outcomes[i].invoke = "raise" THEN "tool_call_error" ELSE "tool_call_complete",
                 selected[i])>>
         \o ToolEvents(selected, outcomes, i + 1)

InitStreamHist == [passes |-> 0, reasoning_steps |-> 0, routes |-> <<>>]

NoOracle ==
    [used |-> FALSE, history_ok |-> TRUE, intent |-> LlmFailure, tool |-> NoOutcome,
     reasoning |-> [ok |-> FALSE, text |-> EmptyText], response |-> [ok |-> FALSE, text |-> None]]

StreamStart(user_message) ==
    /\ s_pc = "setup"
    /\ sstate = SetupWorkflowState(user_message)
    /\ events = <<>>
    /\ s_hist = InitStreamHist

StreamIdle == StreamStart({"weather"}) /\ oracle = NoOracle

StSetup(history_oks) ==
    /\ s_pc = "setup"
    /\ \E history_ok \in history_oks :
          IF history_ok
          THEN /\ s_pc' = "intent_analysis"
               /\ events' = events \o <<Status, Status, Status>>
          ELSE /\ s_pc' = "done"
               /\ events' = events \o <<Status, Event("error", None)>>
    /\ UNCHANGED <<sstate, s_hist, oracle>>
    /\ UNCHANGED <<wfVars, storeVars, appendVars, contextVars, managerVars, paramVars>>

StAnalyzeIntent(outs) ==
    /\ s_pc = "intent_analysis"
    /\ \E out \in outs : sstate' = AnalyzeIntent(sstate, out)
    /\ events' = Append(events, StepComplete("intent_analysis"))
    /\ s_pc' = "tool_selection"
    /\ UNCHANGED <<s_hist, oracle>>
    /\ UNCHANGED <<wfVars, storeVars, appendVars, contextVars, managerVars, paramVars>>

StSelectTools ==
    /\ s_pc = "tool_selection"
    /\ sstate' = SelectTools(sstate)
    /\ events' = events \o <<Status, StepComplete("tool_selection")>>
    /\ s_pc' = "tool_execution"
    /\ UNCHANGED <<s_hist, oracle>>
    /\ UNCHANGED <<wfVars, storeVars, appendVars, contextVars, managerVars, paramVars>>

\* the in-line tool loop; _execute_tools is not called, iteration_count stays
StExecuteTools(outs) ==
    /\ s_pc = "tool_execution"
    /\ IF sstate.selected_tools = <<>>
       THEN /\ events' = Append(events, Status)
            /\ UNCHANGED <<sstate, s_hist>>
       ELSE \E outcomes \in [1..Len(sstate.selected_tools) -> outs] :
               /\ sstate' = [sstate EXCEPT !.tool_results = StreamRunTools(sstate.selected_tools, outcomes, 1)]
               /\ events' = events \o <<Status>> \o ToolEvents(sstate.selected_tools, outcomes, 1)
                                   \o <<Status>>
               /\ s_hist' = [s_hist EXCEPT !.passes = @ + 1]
    /\ s_pc' = "reasoning"
    /\ UNCHANGED oracle
    /\ UNCHANGED <<wfVars, storeVars, appendVars, contextVars, managerVars, paramVars>>

\* the reasoning step and the routing written out after it
StReason(outs) ==
    /\ s_pc = "reasoning"
    /\ \E out \in outs :
          LET after == ReasonAboutCompleteness(sstate, out)
              more == /\ after.workflow_status = "tool_execution"
                      /\ ~(after.iteration_count >= after.max_iterations)
                      /\ ~(\E i \in 1..Len(after.previous_tool_selections) :
                              SortedEqual(after.previous_tool_selections[i], after.selected_tools))
          IN /\ sstate' = after
             /\ events' = events \o <<StepComplete("reasoning")>>
                                 \o (IF after.workflow_status = "tool_execution" THEN <<Status>> ELSE <<>>)
             /\ s_pc' = IF more THEN "more_tools" ELSE "response_generation"
             /\ s_hist' = [s_hist EXCEPT
                   !.reasoning_steps = @ + 1,
                   !.routes = Append(@, IF more THEN "continue_tools" ELSE "generate_response")]
    /\ UNCHANGED oracle
    /\ UNCHANGED <<wfVars, storeVars, appendVars, contextVars, managerVars, paramVars>>

\* "Executing more tools...": tool selection and the tool loop once more,
\* then response generation without another reasoning step
StMoreTools(outs) ==
    /\ s_pc = "more_tools"
    /\ LET selected == SelectTools(sstate)
       IN IF selected.selected_tools = <<>>
          THEN /\ sstate' = selected
               /\ events' = Append(events, StepComplete("tool_selection"))
               /\ UNCHANGED s_hist
          ELSE \E outcomes \in [1..Len(selected.selected_tools) -> outs] :
                  /\ sstate' = [selected EXCEPT !.tool_results =
                                    StreamRunTools(selected.selected_tools, outcomes, 1)]
                  /\ events' = events \o <<StepComplete("tool_selection"), Status>>
                                      \o ToolEvents(selected.selected_tools, outcomes, 1)
                  /\ s_hist' = [s_hist EXCEPT !.passes = @ + 1]
    /\ s_pc' = "response_generation"
    /\ UNCHANGED oracle
    /\ UNCHANGED <<wfVars, storeVars, appendVars, contextVars, managerVars, paramVars>>

StGenerateResponse(outs) ==
    /\ s_pc = "response_generation"
    /\ \E out \in outs :
          LET after == GenerateResponse(sstate, out)
          IN /\ sstate' = after
             /\ events' = events \o <<Status, StepComplete("response_generation")>>
                                 \o ResponseEvents(after.response)
    /\ s_pc' = "done"
    /\ UNCHANGED <<s_hist, oracle>>
    /\ UNCHANGED <<wfVars, storeVars, appendVars, contextVars, managerVars, paramVars>>

StreamNext ==
    \/ StSetup(BOOLEAN)
    \/ StAnalyzeIntent(IntentOutcomes)
    \/ StSelectTools
    \/ StExecuteTools(ToolOutcomes)
    \/ StReason(ReasoningOutcomes)
    \/ StMoreTools(ToolOutcomes)
    \/ StGenerateResponse(ResponseOutcomes)

(***************************************************************************)
(* Session state and its two stores: the Fast Store (Redis key             *)
(* agent_state:{session_id}) and the Durable Store (PostgreSQL tables      *)
(* sessions and conversation_messages).                                    *)
(***************************************************************************)
Sessions == {"s1", "s2"}
\* the session the store specifications operate on
StoreSessions == {"s1"}
Turns == {"t1", "t2"}
\* the caller whose turns follow one another
StoreTurns == {"t1"}
\* process_message and process_message_stream
TurnKinds == {"message", "stream"}
MessageRoles == {"user", "assistant", "system"}
AgentStatuses == {"idle", "processing", "completed", "error"}
BlankContent == ""
ValidContents == {"hi", "yo"}
UserContents == {"hi", BlankContent}
TurnResponses == ResponseTexts \cup {ApologyText}

Message(role, content) == [role |-> role, content |-> content]
\* AgentState(session_id): no messages, status idle
NewAgentState == [messages |-> <<>>, status |-> "idle"]
StateAddMessage(st, role, content) == [st EXCEPT !.messages = Append(@, Message(role, content))]
UpdateStatus(st, status) == [st EXCEPT !.status = status]

\* to_dict / from_dict: the enum travels as its string; an unknown string
\* comes back as idle
ToDict(st) ==
    [messages |-> [i \in 1..Len(st.messages) |->
                      [role |-> st.messages[i].role, content |-> st.messages[i].content]],
     status |-> st.status]

FromDict(data) ==
    [messages |-> [i \in 1..Len(data.messages) |->
                      Message(data.messages[i].role, data.messages[i].content)],
     status |-> IF data.status \in AgentStatuses THEN data.status ELSE "idle"]

NoKey == [present |-> FALSE, parsable |-> TRUE, value |-> ToDict(NewAgentState)]
CachedKey(data) == [present |-> TRUE, parsable |-> TRUE, value |-> data]
\* a value under the key that json.loads / from_dict cannot read
CorruptKey == [present |-> TRUE, parsable |-> FALSE, value |-> ToDict(NewAgentState)]
NoRow == [exists |-> FALSE, conversation_status |-> None, message_count |-> 0]
\* Session(session_id=...): column defaults
NewRow == [exists |-> TRUE, conversation_status |-> "idle", message_count |-> 0]

\* the three stores handed to the operators below as one value
Stores == [fast |-> fast, sessions |-> sessions, conversation_messages |-> conversation_messages]

SaveFaults == {"none", "fast", "db_session", "db_message"}
LoadFaults == {"none", "fast", "db"}
NoFaults == {"none"}

ValidateMessage(role, content) ==
    /\ role # None
    /\ content # None
    /\ role \in MessageRoles
    /\ content # BlankContent

MaxOrder(rows) ==
    IF rows = <<>> THEN 0
    ELSE CHOOSE m \in {rows[i].message_order : i \in 1..Len(rows)} :
            \A i \in 1..Len(rows) : rows[i].message_order <= m

NextOrderNoIncrement(rows) ==
    IF rows = <<>> THEN 1 ELSE MaxOrder(rows)

NextOrder(rows) ==
    MaxOrder(rows) + 1

\* MessageController.add_message on the rows of one session
AddMessage(rows, role, content) ==
    IF ~ValidateMessage(role, content)
    THEN [rows |-> rows, raised |-> TRUE]
    ELSE [rows |-> Append(rows, [role |-> role, content |-> content,
                                 message_order |-> NextOrder(rows)]),
          raised |-> FALSE]

RECURSIVE SortByOrder(_)
SortByOrder(rows) ==
    IF rows = <<>> THEN <<>>
    ELSE LET least == CHOOSE i \in 1..Len(rows) :
                         /\ \A j \in 1..Len(rows) : rows[i].message_order <= rows[j].message_order
                         /\ \A j \in 1..(i - 1) : rows[j].message_order > rows[i].message_order
             rest == [k \in 1..(Len(rows) - 1) |-> IF k < least THEN rows[k] ELSE rows[k + 1]]
         IN <<rows[least]>> \o SortByOrder(rest)

\* MessageController.get_messages_by_session: ORDER BY message_order ASC
GetMessagesBySession(S, sid) == SortByOrder(S.conversation_messages[sid])

\* the add_message loop of _persist_agent_state_to_db; a Durable Store
\* outage ("db_message") fails the first call, a blank content fails its own
RECURSIVE AddMessages(_, _, _, _)
AddMessages(rows, new, i, fault) ==
    IF i > Len(new) THEN [rows |-> rows, raised |-> FALSE]
    ELSE IF fault = "db_message" THEN [rows |-> rows, raised |-> TRUE]
    ELSE LET r == AddMessage(rows, new[i].role, new[i].content)
         IN IF r.raised THEN r ELSE AddMessages(r.rows, new, i + 1, fault)

\* state.messages[existing_count:]
SliceFrom(s, from) == IF from > Len(s) THEN <<>> ELSE SubSeq(s, from, Len(s))

\* a persist step that appends every message of the state on every save
PersistAgentStateToDbAll(S, sid, st, fault) ==
    IF fault = "db_session" THEN [S |-> S, raised |-> TRUE]
    ELSE LET row == IF S.sessions[sid].exists THEN S.sessions[sid] ELSE NewRow
             updated == [row EXCEPT !.conversation_status = st.status,
                                    !.message_count = Len(st.messages)]
             added == AddMessages(S.conversation_messages[sid], st.messages, 1, fault)
         IN [S |-> [S EXCEPT !.sessions[sid] = updated,
                             !.conversation_messages[sid] = added.rows],
             raised |-> added.raised]

PersistAgentStateToDb(S, sid, st, fault) ==
    IF fault = "db_session" THEN [S |-> S, raised |-> TRUE]
    ELSE LET row == IF S.sessions[sid].exists THEN S.sessions[sid] ELSE NewRow
             updated == [row EXCEPT !.conversation_status = st.status,
                                    !.message_count = Len(st.messages)]
             existing_count == Len(GetMessagesBySession(S, sid))
             added == AddMessages(S.conversation_messages[sid],
                                  SliceFrom(st.messages, existing_count + 1), 1, fault)
         IN [S |-> [S EXCEPT !.sessions[sid] = updated,
                             !.conversation_messages[sid] = added.rows],
             raised |-> added.raised]

LoadAgentStateFromDbFabricate(S, sid) ==
    LET rows == GetMessagesBySession(S, sid)
        status == S.sessions[sid].conversation_status
    IN [raised |-> FALSE,
        state |-> [messages |-> [i \in 1..Len(rows) |-> Message(rows[i].role, rows[i].content)],
                   status |-> IF status \in AgentStatuses THEN status ELSE "idle"]]

LoadAgentStateFromDb(S, sid) ==
    IF ~S.sessions[sid].exists THEN [raised |-> TRUE, state |-> NewAgentState]
    ELSE LET rows == GetMessagesBySession(S, sid)
             status == S.sessions[sid].conversation_status
         IN [raised |-> FALSE,
             state |-> [messages |-> [i \in 1..Len(rows) |-> Message(rows[i].role, rows[i].content)],
                        status |-> IF status \in AgentStatuses THEN status ELSE "idle"]]

\* a save that writes the snapshot under a key without the session id
SaveAgentStateSharedKey(S, sid, st, fault) ==
    IF fault = "fast"
    THEN [S |-> S, raised |-> TRUE,
          fast_attempted |-> TRUE, db_attempted |-> FALSE,
          fast_failed |-> TRUE, db_failed |-> FALSE]
    ELSE LET cached == [S EXCEPT !.fast = [s \in Sessions |-> CachedKey(ToDict(st))]]
             p == PersistAgentStateToDb(cached, sid, st, fault)
         IN [S |-> p.S, raised |-> p.raised,
             fast_attempted |-> TRUE, db_attempted |-> TRUE,
             fast_failed |-> FALSE, db_failed |-> p.raised]

\* RedisService.save_agent_state: setex, then the write-through; any
\* exception is raised again
SaveAgentState(S, sid, st, fault) ==
    IF fault = "fast"
    THEN [S |-> S, raised |-> TRUE,
          fast_attempted |-> TRUE, db_attempted |-> FALSE,
          fast_failed |-> TRUE, db_failed |-> FALSE]
    ELSE LET cached == [S EXCEPT !.fast[sid] = CachedKey(ToDict(st))]
             p == PersistAgentStateToDb(cached, sid, st, fault)
         IN [S |-> p.S, raised |-> p.raised,
             fast_attempted |-> TRUE, db_attempted |-> TRUE,
             fast_failed |-> FALSE, db_failed |-> p.raised]

\* StateMixin.save_agent_state: every exception becomes False
MixinSaveAgentState(S, sid, st, fault) ==
    IF redis_service = None
    THEN [S |-> S, ok |-> FALSE,
          save |-> [S |-> S, raised |-> TRUE,
                    fast_attempted |-> FALSE, db_attempted |-> FALSE,
                    fast_failed |-> FALSE, db_failed |-> FALSE]]
    ELSE LET r == SaveAgentState(S, sid, st, fault)
         IN [S |-> r.S, ok |-> ~r.raised, save |-> r]

GetAgentStateNoFill(S, sid, fault) ==
    IF fault = "fast" THEN [S |-> S, raised |-> TRUE, hit |-> FALSE, state |-> NewAgentState]
    ELSE IF S.fast[sid].present
    THEN IF S.fast[sid].parsable
         THEN [S |-> S, raised |-> FALSE, hit |-> TRUE, state |-> FromDict(S.fast[sid].value)]
         ELSE [S |-> S, raised |-> TRUE, hit |-> TRUE, state |-> NewAgentState]
    ELSE IF fault = "db" THEN [S |-> S, raised |-> TRUE, hit |-> FALSE, state |-> NewAgentState]
    ELSE LET l == LoadAgentStateFromDb(S, sid)
         IN IF l.raised THEN [S |-> S, raised |-> TRUE, hit |-> FALSE, state |-> NewAgentState]
            ELSE [S |-> S, raised |-> FALSE, hit |-> FALSE, state |-> l.state]

\* RedisService.get_agent_state
GetAgentState(S, sid, fault) ==
    IF fault = "fast" THEN [S |-> S, raised |-> TRUE, hit |-> FALSE, state |-> NewAgentState]
    ELSE IF S.fast[sid].present
    THEN IF S.fast[sid].parsable
         THEN [S |-> S, raised |-> FALSE, hit |-> TRUE, state |-> FromDict(S.fast[sid].value)]
         ELSE [S |-> S, raised |-> TRUE, hit |-> TRUE, state |-> NewAgentState]
    ELSE IF fault = "db" THEN [S |-> S, raised |-> TRUE, hit |-> FALSE, state |-> NewAgentState]
    ELSE LET l == LoadAgentStateFromDb(S, sid)
         IN IF l.raised THEN [S |-> S, raised |-> TRUE, hit |-> FALSE, state |-> NewAgentState]
            ELSE [S |-> [S EXCEPT !.fast[sid] = CachedKey(ToDict(l.state))],
                  raised |-> FALSE, hit |-> FALSE, state |-> l.state]

\* StateMixin.get_agent_state: every exception becomes None (found = FALSE)
MixinGetAgentState(S, sid, fault) ==
    IF redis_service = None
    THEN [S |-> S, found |-> FALSE, state |-> NewAgentState,
          load |-> [S |-> S, raised |-> TRUE, hit |-> FALSE, state |-> NewAgentState]]
    ELSE LET r == GetAgentState(S, sid, fault)
         IN [S |-> r.S, found |-> ~r.raised, state |-> r.state, load |-> r]

\* RedisService.delete_agent_state: the key is deleted; an exception is raised again
DeleteAgentState(S, sid, fault) ==
    IF fault = "fast" THEN [S |-> S, raised |-> TRUE]
    ELSE [S |-> [S EXCEPT !.fast[sid] = NoKey], raised |-> FALSE]

\* StateMixin.delete_agent_state: every exception becomes False
MixinDeleteAgentState(S, sid, fault) ==
    IF redis_service = None THEN [S |-> S, ok |-> FALSE]
    ELSE LET r == DeleteAgentState(S, sid, fault)
         IN [S |-> r.S, ok |-> ~r.raised]

(***************************************************************************)
(* Session operations as a state machine.  turn holds the position and     *)
(* the local agent_state of each in-flight AgentWorkflow.process_message;  *)
(* last_save records the save call the last step ended with, appended the  *)
(* number of messages appended to each session so far.                     *)
(***************************************************************************)
SessionNotFoundText == "Session not found"

IdleTurn ==
    [pc |-> "idle", sid |-> None, agent_state |-> NewAgentState,
     user_message |-> None, response |-> None, save_failed |-> FALSE, ret |-> None,
     kind |-> None, history_before |-> <<>>, error_message |-> None]

NoSave ==
    [valid |-> FALSE, sid |-> None, messages |-> <<>>, stored_before |-> 0, raised |-> FALSE, ok |-> FALSE,
     fast_attempted |-> FALSE, db_attempted |-> FALSE,
     fast_failed |-> FALSE, db_failed |-> FALSE]

NoLoad ==
    [valid |-> FALSE, sid |-> None, turn |-> None, fault |-> None, hit |-> FALSE, raised |-> FALSE, found |-> FALSE,
     state |-> NewAgentState, key_before |-> NoKey, row_before |-> NoRow]

LoadRecord(t, sid, fault, g) ==
    [valid |-> TRUE, sid |-> sid, turn |-> t, fault |-> fault, hit |-> g.load.hit, raised |-> g.load.raised,
     found |-> g.found, state |-> g.state, key_before |-> fast[sid], row_before |-> sessions[sid]]

SaveRecord(sid, st, m) ==
    [valid |-> TRUE, sid |-> sid, messages |-> st.messages,
     stored_before |-> Len(conversation_messages[sid]), raised |-> m.save.raised, ok |-> m.ok,
     fast_attempted |-> m.save.fast_attempted, db_attempted |-> m.save.db_attempted,
     fast_failed |-> m.save.fast_failed, db_failed |-> m.save.db_failed]

\* the session the last step worked on, and the turn or caller that made it
Op(sid, t) == [sid |-> sid, turn |-> t]

\* a caller inside MessageMixin.add_message
IdleAdder ==
    [pc |-> "idle", sid |-> None, role |-> None, content |-> None, max_order |-> 0, ok |-> FALSE]

\* StateMixin(redis_service=None, ...): the service the manager was built
\* with, or None
RedisServiceSet == "RedisService"

\* the call on the state manager made by the last step: what the caller
\* got back, a value or an exception
NoCall == [valid |-> FALSE, op |-> None, sid |-> None, initialized |-> FALSE,
           raised |-> FALSE, value |-> None]
CallRecord(op, sid, value) ==
    [valid |-> TRUE, op |-> op, sid |-> sid, initialized |-> redis_service # None,
     raised |-> FALSE, value |-> value]

\* the context query of the last step and its result
NoQuery == [valid |-> FALSE, sid |-> None, impl |-> None, query |-> None, limit |-> 0, items |-> <<>>]
QueryRecord(sid, impl, query, limit, items) ==
    [valid |-> TRUE, sid |-> sid, impl |-> impl, query |-> query, limit |-> limit, items |-> items]

\* no parameter extraction under way
NoParams == [tool |-> None, has_limit |-> FALSE, limit |-> 0, session_id |-> None]

(***************************************************************************)
(* AgentState.to_dict and AgentState.from_dict with every field: enums and *)
(* datetimes are objects in the state and strings in the dictionary        *)
(***************************************************************************)
MaxSnapshotMessages == 2
\* an enum member and a datetime
Enum(class, value) == [class |-> class, value |-> value]
Datetime(sec, micro) == [sec |-> sec, micro |-> micro]
Datetimes == {Datetime(0, 0), Datetime(0, 5)}
\* datetime.isoformat(): the fraction is left out when microsecond is 0
IsoFormat(dt) ==
    CASE dt = Datetime(0, 0) -> "2025-01-01T00:00:00"
      [] dt = Datetime(0, 5) -> "2025-01-01T00:00:00.000005"
      [] OTHER -> "2025-01-01T00:00:01"
\* the datetime pydantic, or datetime.fromisoformat, parses from the string
FromIsoFormat(text) ==
    CASE text = "2025-01-01T00:00:00" -> Datetime(0, 0)
      [] text = "2025-01-01T00:00:00.000005" -> Datetime(0, 5)
      [] OTHER -> Datetime(1, 0)
\* metadata of a message: None, or a dictionary of JSON values
NoMetadata == [is_none |-> TRUE, intent |-> ""]
Metadatas == {NoMetadata, [is_none |-> FALSE, intent |-> "chat"]}
\* the context map: empty, or with keys holding JSON values
ContextMaps == {[keys |-> <<>>, values |-> <<>>],
                [keys |-> <<"notes", "doc">>, values |-> <<"text", "alpha">>]}

FullMessage(role, content, timestamp, metadata) ==
    [role |-> role, content |-> content, timestamp |-> timestamp, metadata |-> metadata]
FullMessages ==
    {FullMessage(Enum("MessageRole", r), "hi", ts, md) :
        r \in MessageRoles, ts \in Datetimes, md \in Metadatas}
FullAgentStates ==
    [session_id : Sessions,
     messages : SeqsUpTo(FullMessages, MaxSnapshotMessages),
     context : ContextMaps,
     status : {Enum("AgentStatus", s) : s \in AgentStatuses},
     created_at : {Datetime(0, 0)},
     updated_at : {Datetime(0, 5)}]

MessageToDict(msg) ==
    [role |-> msg.role.value, content |-> msg.content,
     timestamp |-> IsoFormat(msg.timestamp), metadata |-> msg.metadata]
AgentStateToDict(s) ==
    [session_id |-> s.session_id,
     messages |-> [i \in 1..Len(s.messages) |-> MessageToDict(s.messages[i])],
     context |-> s.context,
     status |-> s.status.value,
     created_at |-> IsoFormat(s.created_at),
     updated_at |-> IsoFormat(s.updated_at)]

\* Message(**msg) without the metadata of the dictionary
MessageFromDictNoMetadata(msg) ==
    FullMessage(Enum("MessageRole", msg.role), msg.content, FromIsoFormat(msg.timestamp),
                NoMetadata)
\* Message(**msg): the role string becomes the enum member, the timestamp
\* string a datetime
MessageFromDict(msg) ==
    FullMessage(Enum("MessageRole", msg.role), msg.content, FromIsoFormat(msg.timestamp),
                msg.metadata)
AgentStateFromDict(data) ==
    [session_id |-> data.session_id,
     messages |-> [i \in 1..Len(data.messages) |-> MessageFromDict(data.messages[i])],
     context |-> data.context,
     status |-> Enum("AgentStatus",
                     IF data.status \in AgentStatuses THEN data.status ELSE "idle"),
     created_at |-> FromIsoFormat(data.created_at),
     updated_at |-> FromIsoFormat(data.updated_at)]

NoFullState ==
    [session_id |-> None, messages |-> <<>>, context |-> [keys |-> <<>>, values |-> <<>>],
     status |-> Enum("AgentStatus", "idle"),
     created_at |-> Datetime(0, 0), updated_at |-> Datetime(0, 0)]
\* the value under agent_state:{session_id}: json.dumps of a dictionary of
\* strings, lists, dictionaries and null, which json.loads reads back as it was
NoStateJson == [present |-> FALSE, value |-> AgentStateToDict(NoFullState)]
NoHit == [hit |-> FALSE, state |-> NoFullState]
SnapshotIdle == saved_state = NoFullState /\ state_json = NoStateJson /\ hit_state = NoHit

ParamsIdle == params = NoParams /\ extracted = NoParams /\ SnapshotIdle

StoresCleared ==
    /\ fast = [s \in Sessions |-> NoKey]
    /\ sessions = [s \in Sessions |-> NoRow]
    /\ conversation_messages = [s \in Sessions |-> <<>>]
    /\ turn = [t \in Turns |-> IdleTurn]
    /\ last_save = NoSave
    /\ appended = [s \in Sessions |-> 0]
    /\ last_load = NoLoad
    /\ last_op = Op(None, None)
    /\ adder = [t \in Turns |-> IdleAdder]
    /\ context_embeddings = [s \in Sessions |-> <<>>]
    /\ query_result = NoQuery
    /\ last_call = NoCall

StoresEmpty == StoresCleared /\ ParamsIdle

\* empty stores in a build whose embedding column is text, and a session
\* service made by ServiceFactory.initialize_services
StoreStart == StoresEmpty /\ has_pgvector = FALSE /\ redis_service = RedisServiceSet

WfIdle ==
    /\ wf_pc = "setup"
    /\ state = SetupWorkflowState({"weather"})
    /\ result = NoResult
    /\ hist = InitHist

ApplyStores(S) ==
    /\ fast' = S.fast
    /\ sessions' = S.sessions
    /\ conversation_messages' = S.conversation_messages

InFlight(sid) == Cardinality({t \in Turns : turn[t].pc \notin {"idle", "done"} /\ turn[t].sid = sid})

\* AgentWorkflow.create_session: the session id is a fresh uuid, so no other
\* operation can touch the session before the handler returns
CreateSession(sid, initial_message, response, faults) ==
    /\ ~sessions[sid].exists /\ ~fast[sid].present
    /\ appended[sid] = 0
    /\ \E f1 \in faults, f2 \in faults :
          LET empty == NewAgentState
              with_user == StateAddMessage(empty, "user", initial_message)
              first == MixinSaveAgentState(Stores, sid, with_user, f1)
              with_reply == StateAddMessage(with_user, "assistant", response)
              final_state == IF initial_message \in {None, BlankContent} THEN empty ELSE with_reply
              last == MixinSaveAgentState(
                         IF initial_message \in {None, BlankContent} THEN Stores ELSE first.S,
                         sid, final_state, f2)
          IN /\ ApplyStores(last.S)
             /\ last_save' = SaveRecord(sid, final_state, last)
             /\ appended' = [appended EXCEPT ![sid] = Len(final_state.messages)]
    /\ UNCHANGED turn
    /\ last_load' = NoLoad
    /\ last_op' = Op(sid, None)
    /\ UNCHANGED notStoreVars

\* SessionService.create_complete_session
CreateCompleteSession(sid, initial_message, faults) ==
    /\ appended[sid] + 1 <= MaxMessages
    /\ IF sessions[sid].exists
       THEN /\ last_save' = NoSave
            /\ UNCHANGED <<fast, sessions, conversation_messages, appended>>
       ELSE \E fault \in faults :
               LET created == [Stores EXCEPT !.sessions[sid] = NewRow]
                   add == AddMessage(created.conversation_messages[sid], "user", initial_message)
                   message_added == initial_message \notin {None, BlankContent} /\ ~add.raised
                   with_message ==
                       IF message_added
                       THEN [created EXCEPT !.conversation_messages[sid] = add.rows,
                                            !.sessions[sid].message_count = Len(add.rows)]
                       ELSE created
                   saved == MixinSaveAgentState(with_message, sid, NewAgentState, fault)
               IN /\ ApplyStores(saved.S)
                  /\ last_save' = SaveRecord(sid, NewAgentState, saved)
                  /\ appended' = [appended EXCEPT ![sid] = IF message_added THEN @ + 1 ELSE @]
    /\ UNCHANGED turn
    /\ last_load' = NoLoad
    /\ last_op' = Op(sid, None)
    /\ UNCHANGED notStoreVars

(***************************************************************************)
(* Context records and their similarity queries.  Embeddings have two      *)
(* integer components instead of 768 floats; similarities are kept in      *)
(* tenths, so that 0.1 is 1 and 1.0 is 10.                                  *)
(***************************************************************************)
ContextContents == {"alpha", "beta", "gamma", "text"}
QueryTexts == {"query", "other"}

\* EmbeddingFactory.get_embedding: the vector the embedding model gives a text
GetEmbedding(text) ==
    CASE text \in {"alpha", "query"} -> <<1, 0>>
      [] text = "text" -> <<4, 3>>
      [] text = "beta" -> <<3, 4>>
      [] OTHER -> <<0, 1>>

\* the embedding column: NULL, a stored vector, or (text column) a string
\* that json.loads cannot read
NoEmbedding == [stored |-> FALSE, parsable |-> TRUE, vec |-> <<0, 0>>]
StoredEmbedding(vec) == [stored |-> TRUE, parsable |-> TRUE, vec |-> vec]
UnparsableEmbedding == [stored |-> TRUE, parsable |-> FALSE, vec |-> <<0, 0>>]

\* ContextController.create_context_embedding: the embedding is generated
\* from the content and set on the row
CreateContextEmbedding(context_key, content) ==
    [context_key |-> context_key, content |-> content,
     embedding |-> StoredEmbedding(GetEmbedding(content))]

\* ContextEmbedding.get_embedding: None for NULL and for unreadable text
HasEmbedding(row) == row.embedding.stored /\ row.embedding.parsable

SimilarityScale == 10
\* config.CONTEXT_SIMILARITY_THRESHOLD, 0.1
SimilarityThreshold == 1
\* relevance_score 1.0, given where no similarity is computed
DefaultScore == SimilarityScale

Dot(a, b) == a[1] * b[1] + a[2] * b[2]
Norm(a) == CHOOSE n \in 0..(a[1] + a[2]) : n * n = Dot(a, a)

\* _cosine_similarity
CosineSimilarity(vec1, vec2) ==
    IF Norm(vec1) = 0 \/ Norm(vec2) = 0 THEN 0
    ELSE (SimilarityScale * Dot(vec1, vec2)) \div (Norm(vec1) * Norm(vec2))

\* one entry of a query result; row is the position of the record in the
\* table, kept to tell apart records of equal content
ContextItem(row, content, score) == [row |-> row, content |-> content, relevance_score |-> score]

Take(s, n) == SubSeq(s, 1, IF n < Len(s) THEN n ELSE Len(s))

\* list.sort(key=relevance_score, reverse=True): stable
RECURSIVE SortByScore(_)
SortByScore(items) ==
    IF items = <<>> THEN <<>>
    ELSE LET best == CHOOSE i \in 1..Len(items) :
                        /\ \A j \in 1..Len(items) : items[i].relevance_score >= items[j].relevance_score
                        /\ \A j \in 1..(i - 1) : items[j].relevance_score < items[i].relevance_score
             rest == [k \in 1..(Len(items) - 1) |-> IF k < best THEN items[k] ELSE items[k + 1]]
         IN <<items[best]>> \o SortByScore(rest)

AboveThreshold(items) == SelectSeq(items, LAMBDA item : item.relevance_score >= SimilarityThreshold)

\* search_context_similarity without pgvector: all rows of the session,
\* rows without a readable embedding skipped, threshold, sort, limit
RECURSIVE ManualItems(_, _, _)
ManualItems(rows, i, query_embedding) ==
    IF i > Len(rows) THEN <<>>
    ELSE (IF HasEmbedding(rows[i])
          THEN <<ContextItem(i, rows[i].content,
                             CosineSimilarity(query_embedding, rows[i].embedding.vec))>>
          ELSE <<>>) \o ManualItems(rows, i + 1, query_embedding)

SearchManual(rows, query_embedding, limit) ==
    Take(SortByScore(AboveThreshold(ManualItems(rows, 1, query_embedding))), limit)

\* ORDER BY embedding <=> :embedding: ascending cosine distance, rows with a
\* NULL embedding last; the order of rows at equal distance is not fixed
DistanceOrders(rows, query_embedding) ==
    LET n == Len(rows)
        sim(i) == CosineSimilarity(query_embedding, rows[i].embedding.vec)
        precedes(i, j) == \/ rows[i].embedding.stored /\ ~rows[j].embedding.stored
                          \/ /\ rows[i].embedding.stored /\ rows[j].embedding.stored
                             /\ sim(i) > sim(j)
    IN {p \in [1..n -> 1..n] :
          /\ \A i, j \in 1..n : i # j => p[i] # p[j]
          /\ \A i, j \in 1..n : i < j => ~precedes(p[j], p[i])}

\* search_context_similarity with pgvector: the first limit rows of the
\* ordered query, each given relevance_score 1.0, then the threshold filter
SearchNative(rows, order, limit) ==
    AboveThreshold(Take([k \in 1..Len(rows) |->
                            ContextItem(order[k], rows[order[k]].content, DefaultScore)], limit))

\* ContextControllerSync.retrieve_context_sync with a query: the first limit
\* rows by created_at, a score for each, sort, limit
RECURSIVE SyncItems(_, _, _)
SyncItems(rows, i, query_embedding) ==
    IF i > Len(rows) THEN <<>>
    ELSE <<ContextItem(i, rows[i].content,
                       IF HasEmbedding(rows[i])
                       THEN CosineSimilarity(query_embedding, rows[i].embedding.vec)
                       ELSE DefaultScore)>> \o SyncItems(rows, i + 1, query_embedding)

RetrieveContextSync(rows, query_embedding, limit) ==
    Take(SortByScore(SyncItems(Take(rows, limit), 1, query_embedding)), limit)

\* ContextMixin.store_context with one text value: the session row is made
\* when it is missing, then VectorService.store_context adds the record
StoreContext(sid, context_key, content) ==
    /\ Len(context_embeddings[sid]) < MaxContexts
    /\ sessions' = [sessions EXCEPT ![sid] = IF @.exists THEN @ ELSE NewRow]
    /\ context_embeddings' = [context_embeddings EXCEPT ![sid] =
          Append(@, CreateContextEmbedding(context_key, content))]
    /\ last_save' = NoSave
    /\ last_load' = NoLoad
    /\ last_op' = Op(sid, None)
    /\ query_result' = NoQuery
    /\ UNCHANGED <<fast, conversation_messages, turn, appended, has_pgvector>>
    /\ UNCHANGED <<wfVars, appendVars, streamVars, managerVars, paramVars>>

(***************************************************************************)
(* VectorService.store_context for text, file and list values, and         *)
(* ContextMixin.delete_context with a key                                   *)
(***************************************************************************)
ContextKeys == {"notes", "doc"}
\* f"{key}_{i}"
ChunkKey(key, i) ==
    CASE key = "notes" /\ i = 0 -> "notes_0"
      [] key = "notes" /\ i = 1 -> "notes_1"
      [] key = "doc" /\ i = 0 -> "doc_0"
      [] key = "doc" /\ i = 1 -> "doc_1"
      [] OTHER -> "key_i"
\* metadata original_key of a file chunk, list_key of a list item; the key
\* itself for a text record
OriginalKey(context_key) ==
    CASE context_key \in {"notes_0", "notes_1"} -> "notes"
      [] context_key \in {"doc_0", "doc_1"} -> "doc"
      [] OTHER -> context_key

\* a value of context_data: a string, a file whose content split_text cuts
\* into parts, or a list of items
ContextValues ==
    [kind : {"text"}, parts : {<<"text">>, <<"alpha">>}]
    \cup [kind : {"file", "list"}, parts : {<<"alpha">>, <<"alpha", "beta">>, <<"gamma", "text">>}]

RecordKey(key, value, i) == IF value.kind = "text" THEN key ELSE ChunkKey(key, i - 1)

\* the create_context_embedding calls of one key, each committed on its own;
\* the call number fail_at raises (0: none does)
RECURSIVE StoreRecords(_, _, _, _, _)
StoreRecords(rows, key, value, i, fail_at) ==
    IF i > Len(value.parts) THEN [rows |-> rows, raised |-> FALSE]
    ELSE IF i = fail_at THEN [rows |-> rows, raised |-> TRUE]
    ELSE StoreRecords(Append(rows, CreateContextEmbedding(RecordKey(key, value, i), value.parts[i])),
                      key, value, i + 1, fail_at)

StoreContextData(sid, key, value, fail_at) ==
    /\ Len(context_embeddings[sid]) + Len(value.parts) <= MaxContexts
    /\ LET r == StoreRecords(context_embeddings[sid], key, value, 1, fail_at)
       IN /\ context_embeddings' = [context_embeddings EXCEPT ![sid] = r.rows]
          /\ last_call' = CallRecord("store_context", sid,
                                     [ok |-> ~r.raised, key |-> key,
                                      rows_before |-> Len(context_embeddings[sid])])
    /\ sessions' = [sessions EXCEPT ![sid] = IF @.exists THEN @ ELSE NewRow]
    /\ last_save' = NoSave
    /\ last_load' = NoLoad
    /\ last_op' = Op(sid, None)
    /\ query_result' = NoQuery
    /\ UNCHANGED <<fast, conversation_messages, turn, appended, has_pgvector, redis_service>>
    /\ UNCHANGED <<wfVars, appendVars, streamVars, paramVars>>

\* delete_context_by_key: DELETE ... WHERE context_key = :context_key
DeleteContextByKey(rows, context_key) ==
    SelectSeq(rows, LAMBDA row : row.context_key # context_key)

DeleteContext(sid, context_key) ==
    /\ context_embeddings[sid] # <<>>
    /\ context_embeddings' = [context_embeddings EXCEPT ![sid] = DeleteContextByKey(@, context_key)]
    /\ last_call' = CallRecord("delete_context", sid,
                               [ok |-> TRUE, key |-> context_key,
                                rows_before |-> Len(context_embeddings[sid])])
    /\ last_save' = NoSave
    /\ last_load' = NoLoad
    /\ last_op' = Op(sid, None)
    /\ query_result' = NoQuery
    /\ UNCHANGED <<fast, sessions, conversation_messages, turn, appended, has_pgvector, redis_service>>
    /\ UNCHANGED <<wfVars, appendVars, streamVars, paramVars>>

\* the frame of a context query: it reads the table and returns a list
QueryFrame(sid) ==
    /\ last_save' = NoSave
    /\ last_load' = NoLoad
    /\ last_op' = Op(sid, None)
    /\ UNCHANGED <<fast, sessions, conversation_messages, turn, appended>>
    /\ UNCHANGED <<context_embeddings, has_pgvector>>
    /\ UNCHANGED <<wfVars, appendVars, streamVars, managerVars, paramVars>>

\* VectorService.retrieve_context with a query:
\* ContextController.search_context_similarity on the query's embedding
SearchContextSimilarity(sid, query, limit) ==
    /\ context_embeddings[sid] # <<>>
    /\ LET rows == context_embeddings[sid]
           q == GetEmbedding(query)
       IN IF has_pgvector
          THEN \E order \in DistanceOrders(rows, q) :
                  query_result' = QueryRecord(sid, "native", query, limit,
                                              SearchNative(rows, order, limit))
          ELSE query_result' = QueryRecord(sid, "manual", query, limit,
                                           SearchManual(rows, q, limit))
    /\ QueryFrame(sid)

\* the retrieve_session_context tool with a query
RetrieveSessionContext(sid, query, limit) ==
    /\ context_embeddings[sid] # <<>>
    /\ query_result' = QueryRecord(sid, "sync", query, limit,
                          RetrieveContextSync(context_embeddings[sid], GetEmbedding(query), limit))
    /\ QueryFrame(sid)

\* a row of context_embeddings written without a readable embedding: the
\* column is nullable, and in the text build any string fits
ForeignRecord(sid, context_key, content, embedding) ==
    /\ Len(context_embeddings[sid]) < MaxContexts
    /\ sessions[sid].exists
    /\ embedding = UnparsableEmbedding => ~has_pgvector
    /\ context_embeddings' = [context_embeddings EXCEPT ![sid] =
          Append(@, [context_key |-> context_key, content |-> content, embedding |-> embedding])]
    /\ last_save' = NoSave
    /\ last_load' = NoLoad
    /\ last_op' = Op(sid, None)
    /\ query_result' = NoQuery
    /\ UNCHANGED <<fast, sessions, conversation_messages, turn, appended, has_pgvector>>
    /\ UNCHANGED <<wfVars, appendVars, streamVars, managerVars, paramVars>>

\* the states a caller hands to save_agent_state
SaveStates ==
    LET one == StateAddMessage(NewAgentState, "user", "hi")
        two == StateAddMessage(one, "assistant", "answer")
    IN {NewAgentState, one, two, UpdateStatus(two, "completed")}

\* a call of StateMixin.save_agent_state from outside a turn
ManagerSave(sid, st, faults) ==
    /\ \E fault \in faults :
          LET m == MixinSaveAgentState(Stores, sid, st, fault)
          IN /\ ApplyStores(m.S)
             /\ last_save' = SaveRecord(sid, st, m)
             /\ last_call' = CallRecord("save", sid, m.ok)
             /\ appended' = [appended EXCEPT ![sid] = Len(m.S.conversation_messages[sid])]
    /\ last_load' = NoLoad
    /\ last_op' = Op(sid, None)
    /\ UNCHANGED <<turn, redis_service>>
    /\ UNCHANGED <<wfVars, appendVars, streamVars, contextVars, paramVars>>

\* a call of StateMixin.get_agent_state from outside a turn
ManagerLoad(sid, faults) ==
    /\ \E fault \in faults :
          LET g == MixinGetAgentState(Stores, sid, fault)
          IN /\ ApplyStores(g.S)
             /\ last_call' = CallRecord("load", sid, IF g.found THEN g.state ELSE None)
             /\ last_load' = LoadRecord(None, sid, fault, g)
    /\ last_save' = NoSave
    /\ last_op' = Op(sid, None)
    /\ UNCHANGED <<turn, appended, redis_service>>
    /\ UNCHANGED <<wfVars, appendVars, streamVars, contextVars, paramVars>>

\* a call of StateMixin.delete_agent_state
ManagerDelete(sid, faults) ==
    /\ \E fault \in faults :
          LET d == MixinDeleteAgentState(Stores, sid, fault)
          IN /\ ApplyStores(d.S)
             /\ last_call' = CallRecord("delete", sid, d.ok)
    /\ last_save' = NoSave
    /\ last_load' = NoLoad
    /\ last_op' = Op(sid, None)
    /\ UNCHANGED <<turn, appended, redis_service>>
    /\ UNCHANGED <<wfVars, appendVars, streamVars, contextVars, paramVars>>

\* DELETE with soft_delete false: SessionMixin.delete_session calls
\* SessionController.delete_session, which deletes the row of the sessions
\* table and nothing else
DeleteSession(sid) ==
    /\ sessions[sid].exists
    /\ sessions' = [sessions EXCEPT ![sid] = NoRow]
    /\ last_save' = NoSave
    /\ last_load' = NoLoad
    /\ last_op' = Op(sid, None)
    /\ UNCHANGED <<fast, conversation_messages, turn, appended>>
    /\ UNCHANGED notStoreVars

\* SessionService.delete_complete_session: the session row, the context
\* records, the messages and the Fast Store key, one after another
DeleteCompleteSession(sid) ==
    /\ sessions[sid].exists
    /\ sessions' = [sessions EXCEPT ![sid] = NoRow]
    /\ context_embeddings' = [context_embeddings EXCEPT ![sid] = <<>>]
    /\ conversation_messages' = [conversation_messages EXCEPT ![sid] = <<>>]
    /\ fast' = [fast EXCEPT ![sid] = NoKey]
    /\ appended' = [appended EXCEPT ![sid] = 0]
    /\ last_save' = NoSave
    /\ last_load' = NoLoad
    /\ last_op' = Op(sid, None)
    /\ query_result' = NoQuery
    /\ UNCHANGED <<turn, has_pgvector>>
    /\ UNCHANGED <<wfVars, appendVars, streamVars, managerVars, paramVars>>

\* the Fast Store key expires (TTL) or is evicted
Evict(sid) ==
    /\ fast[sid].present
    /\ fast' = [fast EXCEPT ![sid] = NoKey]
    /\ last_save' = NoSave
    /\ UNCHANGED <<sessions, conversation_messages, turn, appended>>
    /\ last_load' = NoLoad
    /\ last_op' = Op(sid, None)
    /\ UNCHANGED notStoreVars

\* the Fast Store value of the session is damaged from outside the program
Corrupt(sid) ==
    /\ fast[sid].present /\ fast[sid].parsable
    /\ fast' = [fast EXCEPT ![sid] = CorruptKey]
    /\ last_save' = NoSave
    /\ last_load' = NoLoad
    /\ last_op' = Op(sid, None)
    /\ UNCHANGED <<sessions, conversation_messages, turn, appended>>
    /\ UNCHANGED notStoreVars

\* process_message / process_message_stream: get_agent_state, "Session not
\* found" when it gives None
TurnLoad(t, sid, kind, user_message, faults, sequential) ==
    /\ turn[t].pc \in {"idle", "done"}
    /\ sequential => \A u \in Turns : turn[u].pc \in {"idle", "done"}
    /\ appended[sid] + 2 * (InFlight(sid) + 1) <= MaxMessages
    /\ \E fault \in faults :
          LET g == MixinGetAgentState(Stores, sid, fault)
          IN /\ ApplyStores(g.S)
             /\ last_load' = LoadRecord(t, sid, fault, g)
             /\ turn' = [turn EXCEPT ![t] =
                   IF g.found
                   THEN [IdleTurn EXCEPT !.pc = "loaded", !.sid = sid, !.kind = kind,
                                         !.agent_state = g.state, !.user_message = user_message,
                                         !.history_before = GetMessagesBySession(Stores, sid)]
                   ELSE [IdleTurn EXCEPT !.pc = "done", !.sid = sid, !.kind = kind,
                                         !.user_message = user_message, !.ret = "error",
                                         !.error_message = SessionNotFoundText,
                                         !.history_before = GetMessagesBySession(Stores, sid)]]
    /\ last_save' = NoSave
    /\ last_op' = Op(sid, t)
    /\ UNCHANGED appended
    /\ UNCHANGED notStoreVars

\* update_status(PROCESSING) and the first save
TurnSaveProcessing(t, faults) ==
    /\ turn[t].pc = "loaded"
    /\ \E fault \in faults :
          LET st == UpdateStatus(turn[t].agent_state, "processing")
              m == MixinSaveAgentState(Stores, turn[t].sid, st, fault)
          IN /\ ApplyStores(m.S)
             /\ turn' = [turn EXCEPT ![t].pc = "processing", ![t].agent_state = st,
                                     ![t].save_failed = @ \/ ~m.ok]
             /\ last_save' = SaveRecord(turn[t].sid, st, m)
    /\ UNCHANGED appended
    /\ last_load' = NoLoad
    /\ last_op' = Op(turn[t].sid, t)
    /\ UNCHANGED notStoreVars

\* add_message(USER, user_message) and the second save
TurnSaveUser(t, faults) ==
    /\ turn[t].pc = "processing"
    /\ \E fault \in faults :
          LET st == StateAddMessage(turn[t].agent_state, "user", turn[t].user_message)
              m == MixinSaveAgentState(Stores, turn[t].sid, st, fault)
          IN /\ ApplyStores(m.S)
             /\ turn' = [turn EXCEPT ![t].pc = "user_saved", ![t].agent_state = st,
                                     ![t].save_failed = @ \/ ~m.ok]
             /\ last_save' = SaveRecord(turn[t].sid, st, m)
    /\ appended' = [appended EXCEPT ![turn[t].sid] = @ + 1]
    /\ last_load' = NoLoad
    /\ last_op' = Op(turn[t].sid, t)
    /\ UNCHANGED notStoreVars

\* the response a turn gets from the workflow: process_message always gives
\* a text; process_message_stream keeps "" when no response_complete event
\* arrives
WorkflowResponses(kind, stream_errors) ==
    IF kind = "stream" /\ stream_errors
    THEN TurnResponses \cup {BlankContent}
    ELSE TurnResponses

TurnWorkflow(t, stream_errors) ==
    /\ turn[t].pc = "user_saved"
    /\ \E response \in WorkflowResponses(turn[t].kind, stream_errors) :
          turn' = [turn EXCEPT ![t].pc = "workflow_done", ![t].response = response]
    /\ last_save' = NoSave
    /\ UNCHANGED <<fast, sessions, conversation_messages, appended>>
    /\ last_load' = NoLoad
    /\ last_op' = Op(turn[t].sid, t)
    /\ UNCHANGED notStoreVars

\* add_message(ASSISTANT, response), update_status(COMPLETED), the last save
\* and the return of status success
TurnSaveAssistant(t, faults) ==
    /\ turn[t].pc = "workflow_done"
    /\ \E fault \in faults :
          LET st == UpdateStatus(StateAddMessage(turn[t].agent_state, "assistant", turn[t].response),
                                 "completed")
              m == MixinSaveAgentState(Stores, turn[t].sid, st, fault)
          IN /\ ApplyStores(m.S)
             /\ turn' = [turn EXCEPT ![t].pc = "done", ![t].agent_state = st,
                                     ![t].save_failed = @ \/ ~m.ok, ![t].ret = "success"]
             /\ last_save' = SaveRecord(turn[t].sid, st, m)
    /\ appended' = [appended EXCEPT ![turn[t].sid] = @ + 1]
    /\ last_load' = NoLoad
    /\ last_op' = Op(turn[t].sid, t)
    /\ UNCHANGED notStoreVars

(***************************************************************************)
(* MessageMixin.add_message step by step: MessageController.add_message    *)
(* reads max(message_order) and inserts the row in two statements, then    *)
(* the mixin writes the row count into the session row.  Callers overlap.  *)
(***************************************************************************)
PendingInserts(sid) == Cardinality({t \in Turns : adder[t].pc = "insert" /\ adder[t].sid = sid})

AddMessageRead(t, sid, role, content) ==
    /\ adder[t].pc \in {"idle", "returned"}
    /\ Len(conversation_messages[sid]) + PendingInserts(sid) < MaxMessages
    /\ adder' = [adder EXCEPT ![t] =
          IF ValidateMessage(role, content)
          THEN [pc |-> "insert", sid |-> sid, role |-> role, content |-> content,
                max_order |-> MaxOrder(conversation_messages[sid]), ok |-> FALSE]
          ELSE [pc |-> "returned", sid |-> sid, role |-> role, content |-> content,
                max_order |-> 0, ok |-> FALSE]]
    /\ last_op' = Op(sid, t)
    /\ UNCHANGED <<fast, sessions, conversation_messages, turn, last_save, appended, last_load>>
    /\ UNCHANGED <<wfVars, streamVars, contextVars, managerVars, paramVars>>

AddMessageInsert(t) ==
    /\ adder[t].pc = "insert"
    /\ conversation_messages' = [conversation_messages EXCEPT ![adder[t].sid] =
          Append(@, [role |-> adder[t].role, content |-> adder[t].content,
                     message_order |-> adder[t].max_order + 1])]
    /\ adder' = [adder EXCEPT ![t].pc = "count"]
    /\ last_op' = Op(adder[t].sid, t)
    /\ UNCHANGED <<fast, sessions, turn, last_save, appended, last_load>>
    /\ UNCHANGED <<wfVars, streamVars, contextVars, managerVars, paramVars>>

\* update_session(message_count = get_message_count(...)): no row, no update
AddMessageCount(t) ==
    /\ adder[t].pc = "count"
    /\ sessions' = [sessions EXCEPT ![adder[t].sid] =
          IF @.exists THEN [@ EXCEPT !.message_count = Len(conversation_messages[adder[t].sid])]
          ELSE @]
    /\ adder' = [adder EXCEPT ![t].pc = "returned", ![t].ok = TRUE]
    /\ last_op' = Op(adder[t].sid, t)
    /\ UNCHANGED <<fast, conversation_messages, turn, last_save, appended, last_load>>
    /\ UNCHANGED <<wfVars, streamVars, contextVars, managerVars, paramVars>>

\* SessionMixin.create_session, the first step of create_complete_session
CreateRow(sid) ==
    /\ ~sessions[sid].exists
    /\ sessions' = [sessions EXCEPT ![sid] = NewRow]
    /\ last_op' = Op(sid, None)
    /\ UNCHANGED <<fast, conversation_messages, turn, last_save, appended, last_load, adder>>
    /\ UNCHANGED <<wfVars, streamVars, contextVars, managerVars, paramVars>>

AppendNext ==
    \/ \E sid \in StoreSessions : CreateRow(sid)
    \/ \E t \in Turns, sid \in StoreSessions, content \in UserContents :
          AddMessageRead(t, sid, "user", content)
    \/ \E t \in Turns : AddMessageInsert(t)
    \/ \E t \in Turns : AddMessageCount(t)

vars == <<wf_pc, state, result, hist, fast, sessions, conversation_messages, turn, last_save, appended,
          last_load, last_op, adder, s_pc, sstate, events, s_hist, oracle,
          context_embeddings, has_pgvector, query_result, redis_service, last_call,
          params, extracted, saved_state, state_json, hit_state>>

WfInit == WfStart /\ StoreStart /\ StreamIdle
StoreInit == WfIdle /\ StoreStart /\ StreamIdle

\* one operation at a time, on stores that can fail
StoreNext ==
    \/ \E sid \in StoreSessions, m \in UserContents \cup {None}, r \in TurnResponses :
          CreateSession(sid, m, r, SaveFaults)
    \/ \E sid \in StoreSessions, m \in UserContents \cup {None} :
          CreateCompleteSession(sid, m, SaveFaults)
    \/ \E sid \in StoreSessions : Evict(sid)
    \/ \E sid \in StoreSessions : Corrupt(sid)
    \/ \E t \in StoreTurns, sid \in StoreSessions, k \in TurnKinds, m \in UserContents :
          TurnLoad(t, sid, k, m, LoadFaults, TRUE)
    \/ \E t \in StoreTurns : TurnSaveProcessing(t, SaveFaults)
    \/ \E t \in StoreTurns : TurnSaveUser(t, SaveFaults)
    \/ \E t \in StoreTurns : TurnWorkflow(t, TRUE)
    \/ \E t \in StoreTurns : TurnSaveAssistant(t, SaveFaults)

\* overlapping turns on stores that do not fail
ConcNext ==
    \/ \E sid \in StoreSessions, r \in TurnResponses :
          CreateSession(sid, None, r, NoFaults)
    \/ \E sid \in StoreSessions : Evict(sid)
    \/ \E t \in Turns, sid \in StoreSessions, k \in TurnKinds, m \in ValidContents :
          TurnLoad(t, sid, k, m, NoFaults, FALSE)
    \/ \E t \in Turns : TurnSaveProcessing(t, NoFaults)
    \/ \E t \in Turns : TurnSaveUser(t, NoFaults)
    \/ \E t \in Turns : TurnWorkflow(t, FALSE)
    \/ \E t \in Turns : TurnSaveAssistant(t, NoFaults)

\* one operation at a time, stores that do not fail, messages that pass validation
SeqNext ==
    \/ \E sid \in StoreSessions, m \in ValidContents \cup {None}, r \in TurnResponses :
          CreateSession(sid, m, r, NoFaults)
    \/ \E sid \in StoreSessions : Evict(sid)
    \/ \E t \in Turns, sid \in StoreSessions, k \in TurnKinds, m \in ValidContents :
          TurnLoad(t, sid, k, m, NoFaults, TRUE)
    \/ \E t \in Turns : TurnSaveProcessing(t, NoFaults)
    \/ \E t \in Turns : TurnSaveUser(t, NoFaults)
    \/ \E t \in Turns : TurnWorkflow(t, FALSE)
    \/ \E t \in Turns : TurnSaveAssistant(t, NoFaults)

RouteInit ==
    /\ wf_pc = "route"
    /\ state \in RouteInputs
    /\ result = NoResult
    /\ hist = InitHist
    /\ StoreStart /\ StreamIdle
SpecRoute == RouteInit /\ [][WfRoute]_vars

(***************************************************************************)
(* _extract_tool_parameters after the Language Model answered: the session *)
(* id substitution and _validate_parameters                                *)
(***************************************************************************)
\* limits a Language Model may put in the JSON object
ExtractedLimits ==
    {0, 1, ToolDefaultLimit, ToolMaxLimit - 1, ToolMaxLimit, ToolMaxLimit + 1, ToolMaxLimit + ToolMaxLimit}
\* session_id values of the JSON object: the placeholder, empty, a real id
ExtractedSessionIds == {"SESSION_ID", "", "s1", "s2"}
ExtractedParams ==
    [tool : Range(Tools), has_limit : {FALSE}, limit : {0}, session_id : ExtractedSessionIds \cup {None}]
    \cup [tool : Range(Tools), has_limit : {TRUE}, limit : ExtractedLimits,
          session_id : ExtractedSessionIds \cup {None}]

SubstituteSessionId(p, session_id) ==
    IF p.session_id # None /\ p.session_id \in {"SESSION_ID", ""}
    THEN [p EXCEPT !.session_id = session_id]
    ELSE p

ValidateParameters(tool_name, p) ==
    IF p.has_limit /\ p.limit > ToolMaxLimit
    THEN [p EXCEPT !.limit = ToolDefaultLimit]
    ELSE p

ExtractToolParameters(session_id) ==
    /\ params = NoParams
    /\ extracted # NoParams
    /\ params' = ValidateParameters(extracted.tool, SubstituteSessionId(extracted, session_id))
    /\ UNCHANGED <<extracted, saved_state, state_json, hit_state>>
    /\ UNCHANGED <<wfVars, storeVars, appendVars, streamVars, contextVars, managerVars>>

ParamInit ==
    /\ WfIdle /\ StreamIdle /\ StoresCleared
    /\ has_pgvector = FALSE /\ redis_service = RedisServiceSet
    /\ extracted \in ExtractedParams
    /\ params = NoParams
    /\ SnapshotIdle
ParamNext == \E sid \in Sessions : ExtractToolParameters(sid)
SpecParam == ParamInit /\ [][ParamNext]_vars

(***************************************************************************)
(* A state written to the Fast Store by save_agent_state and read back by  *)
(* get_agent_state on a cache hit                                           *)
(***************************************************************************)
\* state_json = json.dumps(state.to_dict(), default=str); setex(...)
SetexAgentState ==
    /\ ~state_json.present
    /\ state_json' = [present |-> TRUE, value |-> AgentStateToDict(saved_state)]
    /\ UNCHANGED <<params, extracted, saved_state, hit_state>>
    /\ UNCHANGED <<wfVars, storeVars, appendVars, streamVars, contextVars, managerVars>>

\* state_json is there: AgentState.from_dict(json.loads(state_json))
GetAgentStateHit ==
    /\ state_json.present
    /\ ~hit_state.hit
    /\ hit_state' = [hit |-> TRUE, state |-> AgentStateFromDict(state_json.value)]
    /\ UNCHANGED <<params, extracted, saved_state, state_json>>
    /\ UNCHANGED <<wfVars, storeVars, appendVars, streamVars, contextVars, managerVars>>

SnapshotInit ==
    /\ WfIdle /\ StreamIdle /\ StoresCleared
    /\ has_pgvector = FALSE /\ redis_service = RedisServiceSet
    /\ params = NoParams /\ extracted = NoParams
    /\ saved_state \in FullAgentStates
    /\ state_json = NoStateJson
    /\ hit_state = NoHit
SnapshotNext == SetexAgentState \/ GetAgentStateHit
SpecSnapshot == SnapshotInit /\ [][SnapshotNext]_vars

SpecWorkflow == WfInit /\ [][WfNext]_vars
FairWorkflow == WfInit /\ [][WfNext]_vars /\ WF_vars(WfNext)
\* the turn with slow tools, every step that can be taken being taken
FairTimed == WfInit /\ [][TimedNext]_vars /\ WF_vars(TimedNext)
SpecStore == StoreInit /\ [][StoreNext]_vars
SpecSeq == StoreInit /\ [][SeqNext]_vars
SpecConc == StoreInit /\ [][ConcNext]_vars
SpecAppend == StoreInit /\ [][AppendNext]_vars

\* two sessions, each with its own turn, their steps interleaved
TurnSession(t) == IF t = "t1" THEN "s1" ELSE "s2"
IsoContents == {"hi"}
IsoNext ==
    \/ \E sid \in Sessions, r \in ResponseTexts : CreateSession(sid, None, r, NoFaults)
    \/ \E sid \in Sessions : StoreContext(sid, "notes", "text")
    \/ \E sid \in Sessions : Evict(sid)
    \/ \E t \in Turns, m \in IsoContents :
          TurnLoad(t, TurnSession(t), "message", m, NoFaults, FALSE)
    \/ \E t \in Turns : TurnSaveProcessing(t, NoFaults)
    \/ \E t \in Turns : TurnSaveUser(t, NoFaults)
    \/ \E t \in Turns : TurnWorkflow(t, FALSE)
    \/ \E t \in Turns : TurnSaveAssistant(t, NoFaults)
SpecIso == StoreInit /\ [][IsoNext]_vars

\* context records stored by the program, and queries on them
ContextInit ==
    /\ WfIdle /\ StreamIdle /\ StoresEmpty
    /\ has_pgvector \in BOOLEAN
    /\ redis_service = RedisServiceSet
ContextNext ==
    \/ \E sid \in StoreSessions, c \in ContextContents : StoreContext(sid, "notes", c)
    \/ \E sid \in StoreSessions, q \in QueryTexts, limit \in 1..MaxLimit :
          SearchContextSimilarity(sid, q, limit)
    \/ \E sid \in StoreSessions, q \in QueryTexts, limit \in 1..MaxLimit :
          RetrieveSessionContext(sid, q, limit)
SpecContext == ContextInit /\ [][ContextNext]_vars

\* the same with rows that have no readable embedding
ForeignNext ==
    \/ ContextNext
    \/ \E sid \in StoreSessions, c \in {"text"}, emb \in {NoEmbedding, UnparsableEmbedding} :
          ForeignRecord(sid, "notes", c, emb)
SpecForeign == ContextInit /\ [][ForeignNext]_vars

\* context stored under keys, deleted by key and queried
KeyedNext ==
    \/ \E sid \in StoreSessions, key \in ContextKeys, value \in ContextValues,
          fail_at \in 0..MaxContexts :
          fail_at <= Len(value.parts) /\ StoreContextData(sid, key, value, fail_at)
    \/ \E sid \in StoreSessions, key \in ContextKeys : DeleteContext(sid, key)
    \/ \E sid \in StoreSessions, q \in QueryTexts, limit \in 1..MaxLimit :
          SearchContextSimilarity(sid, q, limit)
    \/ \E sid \in StoreSessions, q \in QueryTexts, limit \in 1..MaxLimit :
          RetrieveSessionContext(sid, q, limit)
SpecKeyed == ContextInit /\ [][KeyedNext]_vars

\* calls on a state manager built with or without its Fast Store service
ManagerInit ==
    /\ WfIdle /\ StreamIdle /\ StoresEmpty
    /\ has_pgvector = FALSE
    /\ redis_service \in {None, RedisServiceSet}
ManagerNext ==
    \/ \E sid \in StoreSessions, st \in SaveStates : ManagerSave(sid, st, SaveFaults)
    \/ \E sid \in StoreSessions : ManagerLoad(sid, LoadFaults)
    \/ \E sid \in StoreSessions : ManagerDelete(sid, {"none", "fast"})
SpecManager == ManagerInit /\ [][ManagerNext]_vars

\* sessions that are created, used, given context and deleted between turns
DeleteNext ==
    \/ \E sid \in StoreSessions, r \in ResponseTexts : CreateSession(sid, None, r, NoFaults)
    \/ \E sid \in StoreSessions : StoreContext(sid, "notes", "text")
    \/ \E sid \in StoreSessions : Evict(sid)
    \/ \E sid \in StoreSessions : InFlight(sid) = 0 /\ DeleteSession(sid)
    \/ \E sid \in StoreSessions : InFlight(sid) = 0 /\ DeleteCompleteSession(sid)
    \/ \E t \in StoreTurns, sid \in StoreSessions, m \in IsoContents :
          TurnLoad(t, sid, "message", m, NoFaults, TRUE)
    \/ \E t \in StoreTurns : TurnSaveProcessing(t, NoFaults)
    \/ \E t \in StoreTurns : TurnSaveUser(t, NoFaults)
    \/ \E t \in StoreTurns : TurnWorkflow(t, FALSE)
    \/ \E t \in StoreTurns : TurnSaveAssistant(t, NoFaults)
SpecDelete == StoreInit /\ [][DeleteNext]_vars

\* SessionService.add_message_to_session: MessageMixin.add_message writes the
\* row, then the agent state is loaded, given the same message, and saved
AddMessageToSessionResult(S, sid, role, content) ==
    LET added == AddMessage(S.conversation_messages[sid], role, content)
        counted == [S EXCEPT !.conversation_messages[sid] = added.rows,
                             !.sessions[sid] =
                                 IF @.exists THEN [@ EXCEPT !.message_count = Len(added.rows)]
                                 ELSE @]
        g == MixinGetAgentState(counted, sid, "none")
        st == StateAddMessage(g.state, role, content)
        m == MixinSaveAgentState(g.S, sid, st, "none")
    IN IF added.raised THEN [S |-> S, ok |-> FALSE, hit |-> FALSE, found |-> FALSE]
       ELSE IF ~g.found THEN [S |-> g.S, ok |-> TRUE, hit |-> FALSE, found |-> FALSE]
       ELSE [S |-> m.S, ok |-> TRUE, hit |-> g.load.hit, found |-> TRUE]

AddMessageToSession(sid, role, content) ==
    /\ Len(conversation_messages[sid]) + 2 <= MaxMessages
    /\ LET r == AddMessageToSessionResult(Stores, sid, role, content)
       IN /\ ApplyStores(r.S)
          /\ last_call' = CallRecord("add_message_to_session", sid,
                                     [ok |-> r.ok, hit |-> r.hit, found |-> r.found,
                                      rows_before |-> Len(conversation_messages[sid])])
          /\ appended' = [appended EXCEPT ![sid] = Len(r.S.conversation_messages[sid])]
    /\ last_save' = NoSave
    /\ last_load' = NoLoad
    /\ last_op' = Op(sid, None)
    /\ UNCHANGED <<turn, redis_service>>
    /\ UNCHANGED <<wfVars, appendVars, streamVars, contextVars, paramVars>>

AddMsgContents == {"hi", "answer", BlankContent}
AddMsgNext ==
    \/ \E sid \in StoreSessions, r \in ResponseTexts : CreateSession(sid, None, r, NoFaults)
    \/ \E sid \in StoreSessions : Evict(sid)
    \/ \E sid \in StoreSessions, role \in {"user", "assistant"}, content \in AddMsgContents :
          AddMessageToSession(sid, role, content)
SpecAddMsg == StoreInit /\ [][AddMsgNext]_vars

\* delete_complete_session at any moment, also between the load and the
\* saves of a turn on the same session
RaceNext ==
    \/ \E sid \in StoreSessions, r \in ResponseTexts : CreateSession(sid, None, r, NoFaults)
    \/ \E sid \in StoreSessions : DeleteCompleteSession(sid)
    \/ \E sid \in StoreSessions : Evict(sid)
    \/ \E t \in StoreTurns, sid \in StoreSessions, m \in IsoContents :
          /\ Len(conversation_messages[sid]) + 2 <= MaxMessages
          /\ TurnLoad(t, sid, "message", m, NoFaults, TRUE)
    \/ \E t \in StoreTurns : TurnSaveProcessing(t, NoFaults)
    \/ \E t \in StoreTurns : TurnSaveUser(t, NoFaults)
    \/ \E t \in StoreTurns : TurnWorkflow(t, FALSE)
    \/ \E t \in StoreTurns : TurnSaveAssistant(t, NoFaults)
SpecRace == StoreInit /\ [][RaceNext]_vars

StreamInit ==
    /\ WfIdle /\ StoreStart
    /\ \E m \in UserMessages : StreamStart(m)
    /\ oracle = NoOracle
SpecStream == StreamInit /\ [][StreamNext]_vars

(***************************************************************************)
(* AgentWorkflow.process_message_stream: the turn around the streamed      *)
(* workflow, every event of the workflow passed through to the client      *)
(***************************************************************************)
\* final_response: the full_response of a response_complete event, else ""
FinalResponse ==
    IF \E i \in 1..Len(events) : events[i].type = "response_complete"
    THEN sstate.response
    ELSE BlankContent

\* the `async for update in ...process_message_stream(...)` loop has ended
TurnStreamWorkflow(t) ==
    /\ turn[t].pc = "user_saved"
    /\ turn[t].kind = "stream"
    /\ s_pc = "done"
    /\ turn' = [turn EXCEPT ![t].pc = "workflow_done", ![t].response = FinalResponse]
    /\ last_save' = NoSave
    /\ UNCHANGED <<fast, sessions, conversation_messages, appended>>
    /\ last_load' = NoLoad
    /\ last_op' = Op(turn[t].sid, t)
    /\ UNCHANGED notStoreVars

\* the events the client of the turn has received
TurnEvents(t) ==
    CASE turn[t].pc = "idle" -> <<>>
      [] turn[t].pc = "loaded" -> <<Status>>
      [] turn[t].pc = "processing" -> <<Status, Status>>
      [] turn[t].pc \in {"user_saved", "workflow_done"} -> <<Status, Status, Status, Status>> \o events
      [] turn[t].pc = "done" /\ turn[t].ret = "success" ->
            <<Status, Status, Status, Status>> \o events \o <<Status, Event("complete", None)>>
      [] OTHER -> <<Status, Event("error", None)>>

StreamTurnNext ==
    \/ \E sid \in StoreSessions, r \in ResponseTexts : CreateSession(sid, None, r, NoFaults)
    \/ \E t \in StoreTurns, sid \in StoreSessions, m \in IsoContents :
          s_pc = "setup" /\ TurnLoad(t, sid, "stream", m, NoFaults, TRUE)
    \/ \E t \in StoreTurns : TurnSaveProcessing(t, NoFaults)
    \/ \E t \in StoreTurns : TurnSaveUser(t, NoFaults)
    \/ (\E t \in StoreTurns : turn[t].pc = "user_saved") /\ StreamNext
    \/ \E t \in StoreTurns : TurnStreamWorkflow(t)
    \/ \E t \in StoreTurns : TurnSaveAssistant(t, NoFaults)
SpecStreamTurn == StreamInit /\ [][StreamTurnNext]_vars

\* process_message and then process_message_stream on the same message and
\* empty history, both fed the Language Model outputs and the tool outcome
\* fixed in oracle
Oracles ==
    [used : {TRUE}, history_ok : {TRUE}, intent : IntentOutcomes, tool : ToolOutcomes,
     reasoning : ReasoningOutcomes, response : ResponseOutcomes]

FollowsOracle ==
    /\ wf_pc = "setup" => wf_pc' = "intent_analysis"
    /\ wf_pc = "intent_analysis" => state' = AnalyzeIntent(state, oracle.intent)
    /\ wf_pc = "tool_execution" =>
          hist'.outcomes = [i \in 1..Len(state.selected_tools) |-> oracle.tool]
    /\ wf_pc = "reasoning" => hist'.reason_out = oracle.reasoning
    /\ wf_pc = "response_generation" => state' = GenerateResponse(state, oracle.response)

PairInit ==
    /\ StoreStart
    /\ wf_pc = "setup" /\ result = NoResult /\ hist = InitHist
    /\ \E m \in UserMessages : state = SetupWorkflowState(m) /\ StreamStart(m)
    /\ oracle \in Oracles

PairNext ==
    \/ WfNext /\ FollowsOracle
    \/ wf_pc = "done" /\ StSetup({oracle.history_ok})
    \/ wf_pc = "done" /\ StAnalyzeIntent({oracle.intent})
    \/ wf_pc = "done" /\ StSelectTools
    \/ wf_pc = "done" /\ StExecuteTools({oracle.tool})
    \/ wf_pc = "done" /\ StReason({oracle.reasoning})
    \/ wf_pc = "done" /\ StMoreTools({oracle.tool})
    \/ wf_pc = "done" /\ StGenerateResponse({oracle.response})

SpecPair == PairInit /\ [][PairNext]_vars

(***************************************************************************)
(* Properties of the workflow turn                                         *)
(***************************************************************************)
LastRoute == hist.routes[Len(hist.routes)]
LastGuard == hist.guarded[Len(hist.guarded)]
Responding == wf_pc \in {"response_generation", "return"} \/ (wf_pc = "done" /\ result.status = "success")

\* C1: once the turn enters tool execution, the reasoning -> tool_execution
\* loop reaches response_generation, and has then made at most max_iterations
\* tool-execution passes, whatever the LLM texts and tool outcomes were.
C1_LoopReachesResponse ==
    (wf_pc = "tool_execution") ~> (wf_pc = "response_generation" /\ hist.passes <= state.max_iterations)

\* the cap itself ends a turn whose texts never say generate_response
C1_Witness ==
    /\ wf_pc = "response_generation"
    /\ hist.passes = state.max_iterations
    /\ LastGuard = "hard_cap"
    /\ "generate_response" \notin state.reasoning
    /\ "generate_response" \notin hist.reason_out.text

\* C2: a reasoning step whose (non-empty) tool set equals the tool set of an
\* earlier pass of the turn routes to generate_response, and no tool set is
\* executed in three passes of one turn.
C2_RepeatedSetForcesResponse ==
    /\ \A k \in 1..Len(hist.routes) :
          (/\ hist.executed[k] # <<>>
           /\ \E j \in 1..(k - 1) : Range(hist.executed[j]) = Range(hist.executed[k]))
          => hist.routes[k] = "generate_response"
    /\ \A i, j, k \in 1..Len(hist.executed) :
          (i < j /\ j < k /\ hist.executed[k] # <<>>)
          => ~(Range(hist.executed[i]) = Range(hist.executed[j]) /\ Range(hist.executed[j]) = Range(hist.executed[k]))

\* C3: when no safeguard decides, a reasoning output that contains
\* generate_response sends the turn to response generation.
C3_ReasoningTextGoverns ==
    (/\ hist.routes # <<>>
     /\ LastGuard = "none"
     /\ hist.reason_out.ok
     /\ "generate_response" \in hist.reason_out.text)
    => LastRoute = "generate_response"

\* C4: with max_iterations = 3, a turn whose every reasoning output is
\* continue_tools text, and in which neither cycle detection nor the history
\* cue decided a route, makes exactly 3 tool-execution passes.
C4_ThreePassesWhenAlwaysContinue ==
    (/\ Responding
     /\ state.max_iterations = 3
     /\ hist.always_continue
     /\ \A k \in 1..Len(hist.guarded) : hist.guarded[k] \notin {"cycle_detection", "history_cue"})
    => hist.passes = 3

\* C5: whatever LLM calls failed, a turn that is not finished can take its
\* next step, and a finished turn returned a non-empty response string, the
\* apologetic text when the response-generation call failed.
C5_AlwaysAResponse ==
    /\ wf_pc # "done" => ENABLED WfNext
    /\ wf_pc = "done" =>
          /\ result.status \in {"success", "error"}
          /\ result.response \notin {None, ""}
          /\ "response_generation" \in hist.failed => result.response = ApologyText

C5_Witness ==
    /\ wf_pc = "done"
    /\ {"parameter_extraction", "reasoning", "response_generation"} \subseteq hist.failed
    /\ result.response = ApologyText

\* C6: after a tool-execution pass tool_results holds one record per selected
\* tool, in selection order, with status error and an error text for each
\* tool that raised or was not registered and status success for the others.
C6_OneRecordPerTool ==
    (hist.passes > 0 /\ state.selected_tools # <<>>) =>
       /\ Len(state.tool_results) = Len(state.selected_tools)
       /\ \A i \in 1..Len(state.selected_tools) :
             LET r == state.tool_results[i]
                 failed == hist.outcomes[i].invoke = "raise" \/ state.selected_tools[i] \notin Range(Tools)
             IN /\ r.tool = state.selected_tools[i]
                /\ r.status = IF failed THEN "error" ELSE "success"
                /\ failed => r.error # None

\* a pass whose first tool raised and whose second tool still ran
C6_Witness ==
    /\ wf_pc = "reasoning"
    /\ Len(state.selected_tools) >= 2
    /\ hist.outcomes[1].invoke = "raise"
    /\ Len(state.tool_results) >= 2
    /\ state.tool_results[1].status = "error"
    /\ state.tool_results[2].status = "success"


(***************************************************************************)
(* Properties of the session state and its stores                          *)
(***************************************************************************)
DurableMessages(sid) == LoadAgentStateFromDb(Stores, sid).state.messages
SaveSucceeded == last_save.valid /\ ~last_save.raised

\* C7: whenever save_agent_state completed successfully, the message list
\* rebuilt from the Durable Store alone (the Fast Store key removed, then a
\* load) equals, by role, content and order, the message list just saved.
C7_DurableEqualsSaved ==
    SaveSucceeded =>
        /\ ~LoadAgentStateFromDb(Stores, last_save.sid).raised
        /\ DurableMessages(last_save.sid) = last_save.messages

\* C8: with operations one after another (saves, loads, Fast Store
\* evictions), stores that do not fail and messages that pass validation,
\* the Durable Store holds for every session exactly as many messages as
\* were appended, and their order values are 1..N in insertion order:
\* strictly increasing, no gap, no repeated value.
C8_OrdersGapless ==
    \A sid \in Sessions :
        LET rows == conversation_messages[sid]
        IN /\ Len(rows) = appended[sid]
           /\ \A i \in 1..Len(rows) : rows[i].message_order = i

C8_Witness ==
    /\ Len(conversation_messages["s1"]) = MaxMessages
    /\ appended["s1"] = MaxMessages
    /\ SaveSucceeded

\* C9: every save attempts both the Fast Store write and the Durable Store
\* write, and when either write failed the caller does not get a success
\* value.
C9_BothWritesAttempted ==
    last_save.valid =>
        /\ last_save.fast_attempted /\ last_save.db_attempted
        /\ (last_save.fast_failed \/ last_save.db_failed) => ~last_save.ok

TurnPersisted(t) ==
    LET rows == GetMessagesBySession(Stores, turn[t].sid)
    IN \E i \in 1..(Len(rows) - 1) :
          /\ rows[i].role = "user" /\ rows[i].content = turn[t].user_message
          /\ rows[i + 1].role = "assistant" /\ rows[i + 1].content = turn[t].response

\* C10: a turn that returned status success had no failed save, and its
\* user message and assistant response are in the Durable Store.
C10_SuccessMeansPersisted ==
    \A t \in Turns :
        (turn[t].pc = "done" /\ turn[t].ret = "success") =>
            /\ ~turn[t].save_failed
            /\ TurnPersisted(t)

AscendingCopy(msgs, rows) ==
    /\ Len(msgs) = Len(rows)
    /\ \E f \in [1..Len(rows) -> 1..Len(rows)] :
          /\ \A i, j \in 1..Len(rows) : i # j => f[i] # f[j]
          /\ \A i, j \in 1..Len(rows) :
                i < j => rows[f[i]].message_order <= rows[f[j]].message_order
          /\ \A i \in 1..Len(rows) :
                /\ msgs[i].role = rows[f[i]].role
                /\ msgs[i].content = rows[f[i]].content

LoadHit == last_load.valid /\ last_load.key_before.present /\ last_load.key_before.parsable
LoadMiss == last_load.valid /\ ~last_load.key_before.present /\ last_load.row_before.exists

\* C11: a load that meets a readable Fast Store value returns that snapshot;
\* a load that misses (the key expired or was never written) for a session
\* with a Durable Store row returns the state rebuilt from the row and all
\* its messages in ascending order, and when it returns the Fast Store
\* holds that rebuilt state.  Neither fails while the stores answer.
C11_HitOrRebuild ==
    /\ (LoadHit /\ last_load.fault = "none") =>
          /\ ~last_load.raised
          /\ last_load.state.messages = last_load.key_before.value.messages
          /\ last_load.state.status = last_load.key_before.value.status
    /\ (LoadMiss /\ last_load.fault = "none") =>
          /\ ~last_load.raised
          /\ AscendingCopy(last_load.state.messages, conversation_messages[last_load.sid])
          /\ last_load.state.status = last_load.row_before.conversation_status
          /\ fast[last_load.sid].present /\ fast[last_load.sid].parsable
          /\ fast[last_load.sid].value.messages = last_load.state.messages
          /\ fast[last_load.sid].value.status = last_load.state.status

C11_Witness ==
    /\ LoadMiss /\ ~last_load.raised
    /\ Len(last_load.state.messages) >= 2

LoadAbsent == last_load.valid /\ ~last_load.key_before.present /\ ~last_load.row_before.exists

\* C12: for a session id with neither a Fast Store entry nor a Durable
\* Store session row, load reports not-found (no state is returned), the
\* process_message / process_message_stream that made the load ends with
\* the error 'Session not found', and no session row, message or Fast Store
\* key has been created.
C12_AbsentSessionNotFound ==
    LoadAbsent =>
        /\ last_load.raised /\ ~last_load.found
        /\ turn[last_load.turn].pc = "done"
        /\ turn[last_load.turn].ret = "error"
        /\ turn[last_load.turn].error_message = SessionNotFoundText
        /\ ~sessions[last_load.sid].exists
        /\ conversation_messages[last_load.sid] = <<>>
        /\ ~fast[last_load.sid].present

C12_Witness ==
    /\ LoadAbsent /\ last_load.fault = "none"
    /\ turn[last_load.turn].kind = "stream"
    /\ turn[last_load.turn].ret = "error"

LoadCorrupt == last_load.valid /\ last_load.key_before.present /\ ~last_load.key_before.parsable

\* C13: when the Fast Store value of the session cannot be deserialized,
\* load fails without falling back to the Durable Store, and what its
\* caller gets is an error, not the not-found answer of an absent session.
C13_CorruptCacheIsHardError ==
    LoadCorrupt =>
        /\ last_load.raised
        /\ fast[last_load.sid] = last_load.key_before
        /\ turn[last_load.turn].ret = "error"
        /\ turn[last_load.turn].error_message # SessionNotFoundText

\* C14: after every save that completed without error, message_count of
\* the session row equals the number of message rows of the session.
C14_MessageCountMatchesRows ==
    SaveSucceeded =>
        sessions[last_save.sid].message_count = Len(conversation_messages[last_save.sid])

RowCount(rows, role, content) ==
    Cardinality({i \in 1..Len(rows) : rows[i].role = role /\ rows[i].content = content})

\* the messages two finished turns should have left in the history
TurnMessages(t) == <<Message("user", turn[t].user_message), Message("assistant", turn[t].response)>>
ExpectedCount(t, u, role, content) ==
    Count(Message(role, content), TurnMessages(t) \o TurnMessages(u))

BothReturned(t, u) ==
    /\ t # u
    /\ turn[t].pc = "done" /\ turn[t].ret = "success"
    /\ turn[u].pc = "done" /\ turn[u].ret = "success"
    /\ turn[t].sid = turn[u].sid

\* C15: turns on one session do not overlap in their effect: after two
\* process_message calls on the session have both returned, the persisted
\* history contains both user messages and both assistant responses.
C15_BothTurnsInHistory ==
    \A t, u \in Turns :
        BothReturned(t, u) =>
            \A role \in MessageRoles, content \in ValidContents \cup TurnResponses :
                RowCount(conversation_messages[turn[t].sid], role, content)
                    >= ExpectedCount(t, u, role, content)

\* C16: in every state of the Durable Store, also with overlapping appends
\* to one session, no two messages of a session have the same
\* message_order.
C16_OrderValuesUnique ==
    \A sid \in Sessions :
        \A i, j \in 1..Len(conversation_messages[sid]) :
            i # j => conversation_messages[sid][i].message_order
                        # conversation_messages[sid][j].message_order

JustReturned(t) ==
    /\ last_op.turn = t /\ last_save.valid
    /\ turn[t].pc = "done" /\ turn[t].ret = "success"

\* C17: when process_message returns status success, the persisted history
\* of the session is its content before the turn followed by exactly two
\* messages: the user message, then the assistant response.
C17_HistoryGrowsByTwo ==
    \A t \in Turns :
        JustReturned(t) =>
            LET rows == GetMessagesBySession(Stores, turn[t].sid)
                before == turn[t].history_before
                n == Len(before)
            IN /\ Len(rows) = n + 2
               /\ SubSeq(rows, 1, n) = before
               /\ rows[n + 1].role = "user" /\ rows[n + 1].content = turn[t].user_message
               /\ rows[n + 2].role = "assistant" /\ rows[n + 2].content = turn[t].response

(***************************************************************************)
(* Properties of the event stream                                          *)
(***************************************************************************)
StepRank(step) ==
    CASE step = "intent_analysis" -> 1
      [] step = "tool_selection" -> 2
      [] step = "reasoning" -> 3
      [] step = "response_generation" -> 4
      [] OTHER -> 0

IsToolEvent(ev) == ev.type \in {"tool_call_start", "tool_call_complete", "tool_call_error"}

\* C18: the events follow phase order: step_complete events come in the
\* order intent_analysis, tool_selection, reasoning, response_generation;
\* each tool_call_start is directly followed by the tool_call_complete or
\* tool_call_error of the same tool; the tool-call events of a pass come
\* before the reasoning step_complete of that pass; and no response_chunk
\* comes after response_complete.
C18_EventsFollowPhaseOrder ==
    /\ \A i, j \in 1..Len(events) :
          (i < j /\ events[i].type = "step_complete" /\ events[j].type = "step_complete")
              => StepRank(events[i].name) <= StepRank(events[j].name)
    /\ \A i \in 1..Len(events) :
          events[i].type = "tool_call_start" =>
              (i < Len(events) =>
                  /\ events[i + 1].type \in {"tool_call_complete", "tool_call_error"}
                  /\ events[i + 1].name = events[i].name)
    /\ s_pc = "done" =>
          \A i \in 1..Len(events) :
              IsToolEvent(events[i]) =>
                  \E j \in (i + 1)..Len(events) : events[j] = StepComplete("reasoning")
    /\ \A i, j \in 1..Len(events) :
          (events[i].type = "response_complete" /\ events[j].type = "response_chunk") => j < i

BothDone == oracle.used /\ wf_pc = "done" /\ s_pc = "done"

\* C19: on the same message, history, Language Model outputs and tool
\* outcomes, process_message_stream and process_message make the same
\* number of tool-execution passes and of reasoning steps, end with the same
\* iteration_count and take the same routing decision after each reasoning
\* step.
C19_StreamRunsSameMachine ==
    BothDone =>
        /\ s_hist.passes = hist.passes
        /\ s_hist.reasoning_steps = Len(hist.routes)
        /\ s_hist.routes = hist.routes
        /\ sstate.iteration_count = state.iteration_count

OtherSessionsUntouched ==
    \A b \in Sessions :
        b # last_op'.sid =>
            /\ fast'[b] = fast[b]
            /\ sessions'[b] = sessions[b]
            /\ conversation_messages'[b] = conversation_messages[b]
            /\ context_embeddings'[b] = context_embeddings[b]

OwnTurnResult ==
    \A t \in Turns :
        JustReturned(t) =>
            LET rows == GetMessagesBySession(Stores, turn[t].sid)
                before == turn[t].history_before
                n == Len(before)
            IN /\ Len(rows) = n + 2
               /\ SubSeq(rows, 1, n) = before
               /\ rows[n + 1].role = "user" /\ rows[n + 1].content = turn[t].user_message
               /\ rows[n + 2].role = "assistant" /\ rows[n + 2].content = turn[t].response

\* C20: with turns and state operations on two sessions interleaved, a step
\* on one session changes no other session's Fast Store entry, session row,
\* messages or context records, and a turn leaves in its own session what
\* it would have left alone: the history before it plus its two messages.
C20_SessionsIndependent ==
    [][OtherSessionsUntouched]_vars /\ []OwnTurnResult

C20_Witness ==
    /\ turn["t1"].pc = "done" /\ turn["t1"].ret = "success"
    /\ turn["t2"].pc = "workflow_done"
    /\ last_op.sid = "s1"
    /\ Len(conversation_messages["s2"]) = 1
    /\ Len(context_embeddings["s2"]) = 1

HardDeleted(sid) == sessions[sid].exists /\ ~sessions'[sid].exists

\* C21: when a step removes the session row of a session (hard delete), no
\* message and no context record with that session id is left in the
\* Durable Store after the step.
C21_HardDeleteRemovesChildren ==
    [][\A sid \in Sessions :
          HardDeleted(sid) =>
              /\ conversation_messages'[sid] = <<>>
              /\ context_embeddings'[sid] = <<>>]_vars

\* the similarity of a record of the queried session to the query text
RowSimilarity(i) ==
    CosineSimilarity(GetEmbedding(query_result.query),
                     context_embeddings[query_result.sid][i].embedding.vec)
\* the records a query with query_text may return
Qualifying ==
    {i \in 1..Len(context_embeddings[query_result.sid]) :
        /\ HasEmbedding(context_embeddings[query_result.sid][i])
        /\ RowSimilarity(i) >= SimilarityThreshold}
ReturnedRows == {query_result.items[k].row : k \in 1..Len(query_result.items)}

\* C22: the result of a query with query_text holds only records at or
\* above the similarity threshold, in descending order of similarity, as
\* many as the limit allows, and no record left out is more similar than a
\* returned one; in the native, the manual and the synchronous path alike.
C22_QueryReturnsMostSimilar ==
    query_result.valid =>
        LET items == query_result.items
            n == Cardinality(Qualifying)
        IN /\ ReturnedRows \subseteq Qualifying
           /\ Cardinality(ReturnedRows) = Len(items)
           /\ Len(items) = IF n < query_result.limit THEN n ELSE query_result.limit
           /\ \A k, l \in 1..Len(items) :
                 k < l => RowSimilarity(items[k].row) >= RowSimilarity(items[l].row)
           /\ \A i \in Qualifying \ ReturnedRows :
                 \A k \in 1..Len(items) : RowSimilarity(items[k].row) >= RowSimilarity(i)

\* C23: a record whose embedding is missing or unreadable is in no result
\* of a query with query_text, with any score.
C23_NoEmbeddingNeverReturned ==
    query_result.valid =>
        \A k \in 1..Len(query_result.items) :
            HasEmbedding(context_embeddings[query_result.sid][query_result.items[k].row])

\* C24: a save, load or delete on the state manager made while its store
\* service is not set ends in an exception for the caller, never in an
\* ordinary return value.
C24_UninitializedRaises ==
    (last_call.valid /\ ~last_call.initialized) => last_call.raised

\* iteration_count of both kinds of turn against the passes they started
CountsPasses(st, h) ==
    /\ st.iteration_count = h.passes
    /\ st.iteration_count <= st.max_iterations

\* C25: in every state of a turn, of process_message and of
\* process_message_stream, iteration_count equals the number of
\* tool-execution passes started so far and is at most max_iterations, and
\* no step decreases it.
C25_IterationCountTracksPasses ==
    /\ [](CountsPasses(state, hist) /\ CountsPasses(sstate, s_hist))
    /\ [][/\ state'.iteration_count >= state.iteration_count
          /\ sstate'.iteration_count >= sstate.iteration_count]_vars

\* the current tool set, as a set, is one of the recorded selections
SelectionSeenBefore ==
    /\ state.selected_tools # <<>>
    /\ \E k \in 1..Len(state.previous_tool_selections) :
          /\ Len(state.previous_tool_selections[k]) = Len(state.selected_tools)
          /\ Range(state.previous_tool_selections[k]) = Range(state.selected_tools)

\* C26: the route out of reasoning follows the safeguards in priority
\* order: the iteration cap, then a repeated tool selection, then a history
\* cue with no tools selected, each forcing generate_response; after them
\* generate_response exactly when the reasoning text of the state contains
\* that token, and continue_tools otherwise, also for a text with neither
\* token.
C26_RouteFollowsPriority ==
    hist.routes # <<>> =>
        LastRoute =
            IF state.iteration_count >= state.max_iterations THEN "generate_response"
            ELSE IF SelectionSeenBefore THEN "generate_response"
            ELSE IF state.selected_tools = <<>> /\ \E w \in HistoryCueWords : w \in state.user_message
                 THEN "generate_response"
            ELSE IF "generate_response" \in state.reasoning THEN "generate_response"
            ELSE "continue_tools"

\* a repeated selection decides against a text that says continue_tools
C26_Witness ==
    /\ hist.routes = <<"generate_response">>
    /\ state.iteration_count < state.max_iterations
    /\ SelectionSeenBefore
    /\ state.reasoning = {"continue_tools"}
    /\ wf_pc = "response_generation"

IntentCallFailed == "intent_analysis" \in hist.failed

\* C27: when the intent-analysis call to the language model fails, the
\* state has intent general_query, confidence 0.5 and no required tools
\* from then on, tool selection selects nothing, and the turn goes on to
\* return a response with status success.
C27_IntentFailureIsRecoverable ==
    /\ [](IntentCallFailed =>
             /\ state.intent = "general_query"
             /\ state.confidence = FallbackConfidence
             /\ state.tool_requirements = <<>>
             /\ state.selected_tools = <<>>)
    /\ (IntentCallFailed ~>
           (wf_pc = "done" /\ result.status = "success" /\ result.response \notin {None, ""}))

C27_Witness ==
    /\ IntentCallFailed
    /\ wf_pc = "done"
    /\ result.status = "success"
    /\ result.intent = "general_query"
    /\ result.requires_tools = FALSE
    /\ hist.passes >= 1

AfterToolSelection == wf_pc \in {"tool_execution", "reasoning", "response_generation", "return"}

\* C28: after tool selection, selected_tools holds registered names only,
\* no name twice, and every registered name the intent analysis proposed:
\* the suggestion pass removed none of them.
C28_SelectionRegisteredAndComplete ==
    AfterToolSelection =>
        /\ \A i \in 1..Len(state.selected_tools) :
              \E k \in 1..Len(Tools) : Tools[k] = state.selected_tools[i]
        /\ \A i, j \in 1..Len(state.selected_tools) :
              i # j => state.selected_tools[i] # state.selected_tools[j]
        /\ \A i \in 1..Len(state.tool_requirements) :
              (\E k \in 1..Len(Tools) : Tools[k] = state.tool_requirements[i])
              => \E j \in 1..Len(state.selected_tools) :
                    state.selected_tools[j] = state.tool_requirements[i]

\* an unknown name dropped, and the suggestion pass run on a context tool
C28_Witness ==
    /\ wf_pc = "tool_execution"
    /\ state.tool_requirements = <<"no_such_tool", "retrieve_session_context">>
    /\ state.selected_tools = <<"retrieve_session_context">>
    /\ "tell" \in state.user_message

\* the messages the Durable Store holds for a session, in message order
StoredMessages(rows) ==
    [i \in 1..Len(SortByOrder(rows)) |->
        Message(SortByOrder(rows)[i].role, SortByOrder(rows)[i].content)]
IsPrefix(a, b) == Len(a) <= Len(b) /\ SubSeq(b, 1, Len(a)) = a

FinalStatuses == {"completed", "error"}

\* C30: a turn that has produced its response and returned reports a
\* workflow status of completed or error, never one of the intermediate
\* phases intent_analysis, tool_selection, tool_execution, reasoning or
\* response_generation.
C30_FinishedTurnIsCompleted ==
    (wf_pc = "done" /\ result.status = "success") =>
        result.workflow_status \in FinalStatuses

\* an invocation of the last pass that went past its timeout
TimedOut(i) ==
    /\ i \in 1..Len(hist.outcomes)
    /\ i \in 1..Len(hist.executed[Len(hist.executed)])
    /\ hist.executed[Len(hist.executed)][i] \in Range(Tools)
    /\ hist.outcomes[i].invoke \in {"late", "never"}

\* C31: a tool invocation that does not return within its timeout is
\* recorded in tool_results as a failed tool, and the turn still runs to its
\* end.
C31_ToolTimeoutIsToolFailure ==
    /\ [](wf_pc = "reasoning" /\ hist.passes > 0 =>
            \A i \in 1..Len(hist.outcomes) :
                TimedOut(i) => state.tool_results[i].status = "error")
    /\ [](wf_pc \in {"tool_execution", "awaiting_tool"} => <>(wf_pc = "done"))

Min(a, b) == IF a <= b THEN a ELSE b

\* C32: after parameter sanitization the limit passed to a tool is the
\* minimum of the extracted limit and the configured maximum: a larger limit
\* becomes the maximum, any other limit is unchanged.
C32_LimitIsClamped ==
    (params # NoParams /\ extracted.has_limit) =>
        /\ params.has_limit
        /\ params.limit = Min(extracted.limit, ToolMaxLimit)

\* C33: after a save whose Durable Store write failed, the snapshot the Fast
\* Store holds for the session has no message and no status that the Durable
\* Store lacks.
C33_CacheNeverAheadOfDurable ==
    \A sid \in Sessions :
        (last_save.valid /\ last_save.sid = sid /\ last_save.db_failed
         /\ fast[sid].present /\ fast[sid].parsable) =>
            /\ IsPrefix(FromDict(fast[sid].value).messages,
                        StoredMessages(conversation_messages[sid]))
            /\ sessions[sid].exists
            /\ FromDict(fast[sid].value).status = sessions[sid].conversation_status

\* nothing of the session is left in either store
Gone(sid) ==
    /\ ~sessions[sid].exists
    /\ conversation_messages[sid] = <<>>
    /\ ~fast[sid].present

\* C34: once delete_complete_session has removed a session, no step of a
\* turn, the final save of a turn that was in progress included, brings back
\* the session row, its messages or its cached state.
C34_DeletedSessionStaysDeleted ==
    [][\A sid \in Sessions :
          (Gone(sid) /\ last_op'.turn # None) => Gone(sid)']_vars

\* the conversation statuses a finished turn may leave behind
SettledStatuses == {"completed", "error"}

\* C35: when a turn of process_message or process_message_stream has just
\* finished for an existing session, the conversation status of the session
\* is completed or error in the Durable Store and in the Fast Store, never
\* processing, also when a store write failed during the turn.
C35_FinishedTurnNotProcessing ==
    \A t \in Turns :
        (turn[t].pc = "done" /\ turn[t].error_message # SessionNotFoundText
         /\ last_op = Op(turn[t].sid, t)) =>
            /\ sessions[turn[t].sid].exists
               => sessions[turn[t].sid].conversation_status \in SettledStatuses
            /\ (fast[turn[t].sid].present /\ fast[turn[t].sid].parsable)
               => FromDict(fast[turn[t].sid].value).status \in SettledStatuses

\* C36: in the event stream of a turn an event of type error is terminal: no
\* event of type complete follows it, and the turn is not stored as completed.
C36_ErrorEventIsTerminal ==
    \A t \in StoreTurns :
        LET ev == TurnEvents(t)
        IN (\E i \in 1..Len(ev) : ev[i].type = "error") =>
              /\ \A i, j \in 1..Len(ev) :
                    (i < j /\ ev[i].type = "error") => ev[j].type # "complete"
              /\ turn[t].pc = "done" /\ turn[t].sid # None /\ sessions[turn[t].sid].exists
                 => /\ sessions[turn[t].sid].conversation_status # "completed"
                    /\ fast[turn[t].sid].present /\ fast[turn[t].sid].parsable
                       => FromDict(fast[turn[t].sid].value).status # "completed"

\* C37: a successful add_message_to_session on an existing session adds
\* exactly one message to the Durable Store history of the session, whether
\* the agent state came from the Fast Store or was rebuilt from the Durable
\* Store, and afterwards the cached message list equals the durable one.
C37_AddMessageAddsOne ==
    \A sid \in Sessions :
        (last_call.valid /\ last_call.op = "add_message_to_session" /\ last_call.sid = sid
         /\ last_call.value.ok /\ sessions[sid].exists) =>
            /\ Len(conversation_messages[sid]) = last_call.value.rows_before + 1
            /\ fast[sid].present
            /\ FromDict(fast[sid].value).messages = StoredMessages(conversation_messages[sid])

\* C38: after delete_context(session_id, key) has succeeded, no record
\* derived from that key, a chunk of a file or an item of a list stored
\* under it included, is returned by a later retrieve.
C38_DeleteRemovesDerivedRecords ==
    (last_call.valid /\ last_call.op = "delete_context" /\ last_call.value.ok
     /\ query_result.valid /\ query_result.sid = last_call.sid) =>
        \A k \in 1..Len(query_result.items) :
            OriginalKey(context_embeddings[query_result.sid][query_result.items[k].row].context_key)
                # last_call.value.key

\* C39: store_context is all-or-nothing: when a call reports failure, none
\* of the records of that call is in the Durable Store.
C39_StoreContextAllOrNothing ==
    (last_call.valid /\ last_call.op = "store_context" /\ ~last_call.value.ok) =>
        Len(context_embeddings[last_call.sid]) = last_call.value.rows_before

====
